---- MODULE Spec2Model ----
(***************************************************************************)
(* Commit-graph layout engine of rust-git-gui (src/src/main.rs):           *)
(* Point / Line / UnavailablePoint / Branch / Vertex / GraphBuilder, the   *)
(* input adjustment of GitClient::get_commits_with_graph and the per-row   *)
(* queries.  Rows and lanes are 0-based as in the source; TLA+ sequences   *)
(* are 1-based, so row r lives at vertices[r + 1], lane x at               *)
(* connections[x + 1] and colour c at available_colours[c + 1].            *)
(***************************************************************************)
EXTENDS Integers, Sequences, FiniteSets, TLC

\* ------------------------------------------------------------------------
\* Bounds of the model
\* ------------------------------------------------------------------------
\* most commits of a history walk
MaxRows == 3
\* most parent entries of an input, all rows together
MaxParentRefs == 3
\* longest linear history
MaxLinear == 5
\* most commits of an input to a reused builder
MaxReloadRows == 2
\* most load_commits calls on one builder
MaxLoads == 2
\* most commits of an input that breaks the input contract
MaxLooseRows == 2
\* most parent entries of such an input
MaxLooseRefs == 2
\* most determine_path calls of one load that the model keeps a record of
MaxCalls == 8

\* the paths tried are MAX_RECENT_REPOS and MaxSparePaths more
MaxSparePaths == 1

\* operations on the recent-repository list after the first opens
MaxRecentOps == 1

\* ------------------------------------------------------------------------
\* Program constants
\* ------------------------------------------------------------------------
NULL_VERTEX_ID == -1
BUCKETS == 8
COL_SPACING == 16
ROW_HEIGHT == 28
NODE_RADIUS == 4
X_OFFSET == 7
MAX_RECENT_REPOS == 10

\* ------------------------------------------------------------------------
\* Option<T>: None is the empty sequence, Some(v) the one-element sequence
\* ------------------------------------------------------------------------
None == <<>>
Some(v) == <<v>>
Unwrap(o) == o[1]

Min(S) == CHOOSE m \in S : \A n \in S : m <= n

\* ------------------------------------------------------------------------
\* Point, Line, UnavailablePoint
\* ------------------------------------------------------------------------
Point(x, y) == [x |-> x, y |-> y]
Line(p1, p2, locked_first) == [p1 |-> p1, p2 |-> p2, locked_first |-> locked_first]
UnavailablePoint(connects_to, on_branch) ==
    [connects_to |-> connects_to, on_branch |-> on_branch]

\* ------------------------------------------------------------------------
\* Branch
\* ------------------------------------------------------------------------
BranchNew(colour) ==
    [colour |-> colour, end |-> 0, lines |-> <<>>, num_uncommitted |-> 0]

add_line(b, p1, p2, is_committed, locked_first) ==
    [b EXCEPT
       !.lines = Append(@, Line(p1, p2, locked_first)),
       !.num_uncommitted =
           IF is_committed
           THEN (IF p2.x = 0 /\ p2.y < @ THEN p2.y ELSE @)
           ELSE @ + 1]

set_end(b, end) == [b EXCEPT !.end = end]

\* ------------------------------------------------------------------------
\* Vertex
\* ------------------------------------------------------------------------
VertexNew(id) ==
    [id |-> id, x |-> 0, children |-> <<>>, parents |-> <<>>,
     next_parent |-> 0, on_branch |-> None, is_committed |-> TRUE,
     is_current |-> FALSE, next_x |-> 0, connections |-> <<>>]

add_child(v, child_id) == [v EXCEPT !.children = Append(@, child_id)]

add_parent(v, parent_id) == [v EXCEPT !.parents = Append(@, parent_id)]

get_next_parent(v) ==
    IF v.next_parent < Len(v.parents) THEN Some(v.parents[v.next_parent + 1])
    ELSE None

\* mutant: the cursor steps over two parents
register_parent_processed_twice(v) == [v EXCEPT !.next_parent = @ + 2]

register_parent_processed(v) == [v EXCEPT !.next_parent = @ + 1]

is_merge(v) == Len(v.parents) > 1

\* mutant: a later claim takes the vertex over
add_to_branch_reassigns(v, branch_idx, x) ==
    [v EXCEPT !.on_branch = Some(branch_idx), !.x = x]

add_to_branch(v, branch_idx, x) ==
    IF v.on_branch = None
    THEN [v EXCEPT !.on_branch = Some(branch_idx), !.x = x]
    ELSE v

is_not_on_branch(v) == v.on_branch = None

\* mutant: the vertex's point is taken in its next free lane
get_point_next_lane(v) == Point(v.next_x, v.id)

get_point(v) == Point(v.x, v.id)

\* mutant: the probe skips one lane
get_next_point_skips_lane(v) == Point(v.next_x + 1, v.id)

\* mutant: the probe returns the vertex's current lane
get_next_point_current_lane(v) == Point(v.x, v.id)

get_next_point(v) == Point(v.next_x, v.id)

\* mutant: the lookup matches the branch alone, whatever it connects to
get_point_connecting_to_any_vertex(v, vertex_id, on_branch) ==
    LET hits == {k \in 1..Len(v.connections) :
                    v.connections[k].on_branch = on_branch}
    IN IF hits = {} THEN None ELSE Some(Point(Min(hits) - 1, v.id))

get_point_connecting_to(v, vertex_id, on_branch) ==
    LET hits == {k \in 1..Len(v.connections) :
                    /\ v.connections[k].connects_to = vertex_id
                    /\ v.connections[k].on_branch = on_branch}
    IN IF hits = {} THEN None ELSE Some(Point(Min(hits) - 1, v.id))

\* mutant: a request for a lane that is already reserved is accepted too
register_unavailable_point_any_lane(v, x, connects_to, on_branch) ==
    [v EXCEPT !.next_x = x + 1,
              !.connections =
                  IF Len(@) <= x
                  THEN @ \o <<UnavailablePoint(connects_to, on_branch)>>
                  ELSE [@ EXCEPT ![x + 1] =
                           UnavailablePoint(connects_to, on_branch)]]

register_unavailable_point(v, x, connects_to, on_branch) ==
    IF x = v.next_x
    THEN LET padded ==
                 IF Len(v.connections) <= x
                 THEN v.connections \o
                      [k \in 1..(x + 1 - Len(v.connections)) |->
                          UnavailablePoint(NULL_VERTEX_ID, 0)]
                 ELSE v.connections
         IN [v EXCEPT !.next_x = x + 1,
                      !.connections =
                          [padded EXCEPT ![x + 1] =
                              UnavailablePoint(connects_to, on_branch)]]
    ELSE v

\* mutant: the branch index is returned in place of the branch's colour
Vertex_get_colour_branch_index(v, bs) ==
    IF v.on_branch = None THEN 0 ELSE Unwrap(v.on_branch)

Vertex_get_colour(v, bs) ==
    IF v.on_branch = None THEN 0 ELSE bs[Unwrap(v.on_branch) + 1].colour

set_not_committed(v) == [v EXCEPT !.is_committed = FALSE]

set_current(v) == [v EXCEPT !.is_current = TRUE]

\* ------------------------------------------------------------------------
\* GraphBuilder: a record of the three collections it owns
\* ------------------------------------------------------------------------
GraphBuilderNew ==
    [vertices |-> <<>>, branches |-> <<>>, available_colours |-> <<>>]

\* mutant: the colour palette is not cleared
Clear_keeps_colours(g) == [g EXCEPT !.vertices = <<>>, !.branches = <<>>]

\* the three clear() calls at the top of load_commits
Clear(g) ==
    [g EXCEPT !.vertices = <<>>, !.branches = <<>>, !.available_colours = <<>>]

\* mutant: a colour is reused as soon as its occupant's end is reached
get_available_colour_not_strict(g, start_at) ==
    LET free == {k \in 1..Len(g.available_colours) :
                    start_at >= g.available_colours[k]}
    IN IF free /= {}
       THEN [colour |-> Min(free) - 1, g |-> g]
       ELSE [colour |-> Len(g.available_colours),
             g |-> [g EXCEPT !.available_colours = Append(@, 0)]]

\* mutant: the last free slot is taken, not the first
get_available_colour_last_free(g, start_at) ==
    LET free == {k \in 1..Len(g.available_colours) :
                    start_at > g.available_colours[k]}
    IN IF free /= {}
       THEN [colour |-> (CHOOSE k \in free : \A m \in free : m <= k) - 1,
             g |-> g]
       ELSE [colour |-> Len(g.available_colours),
             g |-> [g EXCEPT !.available_colours = Append(@, 0)]]

\* get_available_colour: the colour returned and the palette it leaves
get_available_colour(g, start_at) ==
    LET free == {k \in 1..Len(g.available_colours) :
                    start_at > g.available_colours[k]}
    IN IF free /= {}
       THEN [colour |-> Min(free) - 1, g |-> g]
       ELSE [colour |-> Len(g.available_colours),
             g |-> [g EXCEPT !.available_colours = Append(@, 0)]]

\* mutant: the walk does not move its last point on
RECURSIVE NormalWalk_keeps_last_point(_, _, _, _, _)
NormalWalk_keeps_last_point(g, branch_idx, vertex_idx, last_point, i) ==
    IF ~(i < Len(g.vertices))
    THEN [g |-> g, vertex_idx |-> vertex_idx, i |-> i]
    ELSE
    LET parent_id == get_next_parent(g.vertices[vertex_idx + 1])
    IN IF parent_id = None
       THEN [g |-> g, vertex_idx |-> vertex_idx, i |-> i]
       ELSE
       LET pid == Unwrap(parent_id)
           reached == pid /= NULL_VERTEX_ID /\ pid = i
           cur_point ==
               IF reached /\ ~is_not_on_branch(g.vertices[i + 1])
               THEN get_point(g.vertices[i + 1])
               ELSE get_next_point(g.vertices[i + 1])
           vertex_is_committed == g.vertices[vertex_idx + 1].is_committed
           locked_first == last_point.x < cur_point.x
           g1 == [g EXCEPT
                    !.branches[branch_idx + 1] =
                        add_line(@, last_point, cur_point,
                                 vertex_is_committed, locked_first),
                    !.vertices[i + 1] =
                        register_unavailable_point(@, cur_point.x, pid,
                                                   branch_idx)]
       IN IF reached
          THEN LET parent_on_branch == ~is_not_on_branch(g1.vertices[i + 1])
                   g2 == [g1 EXCEPT
                            !.vertices[vertex_idx + 1] =
                                register_parent_processed(@),
                            !.vertices[i + 1] =
                                add_to_branch(@, branch_idx, cur_point.x)]
                   next_parent == get_next_parent(g2.vertices[i + 1])
               IN IF next_parent = None \/ parent_on_branch
                  THEN [g |-> g2, vertex_idx |-> i, i |-> i]
                  ELSE NormalWalk_keeps_last_point(g2, branch_idx, i, last_point,
                                                   i + 1)
          ELSE NormalWalk_keeps_last_point(g1, branch_idx, vertex_idx, last_point,
                                           i + 1)

\* the while loop of handle_normal_path; yields the builder, vertex_idx and
\* i with which the loop is left
RECURSIVE NormalWalk(_, _, _, _, _)
NormalWalk(g, branch_idx, vertex_idx, last_point, i) ==
    IF ~(i < Len(g.vertices))
    THEN [g |-> g, vertex_idx |-> vertex_idx, i |-> i]
    ELSE
    LET parent_id == get_next_parent(g.vertices[vertex_idx + 1])
    IN IF parent_id = None
       THEN [g |-> g, vertex_idx |-> vertex_idx, i |-> i]
       ELSE
       LET pid == Unwrap(parent_id)
           reached == pid /= NULL_VERTEX_ID /\ pid = i
           cur_point ==
               IF reached /\ ~is_not_on_branch(g.vertices[i + 1])
               THEN get_point(g.vertices[i + 1])
               ELSE get_next_point(g.vertices[i + 1])
           vertex_is_committed == g.vertices[vertex_idx + 1].is_committed
           locked_first == last_point.x < cur_point.x
           g1 == [g EXCEPT
                    !.branches[branch_idx + 1] =
                        add_line(@, last_point, cur_point,
                                 vertex_is_committed, locked_first),
                    !.vertices[i + 1] =
                        register_unavailable_point(@, cur_point.x, pid,
                                                   branch_idx)]
       IN IF reached
          THEN LET parent_on_branch == ~is_not_on_branch(g1.vertices[i + 1])
                   g2 == [g1 EXCEPT
                            !.vertices[vertex_idx + 1] =
                                register_parent_processed(@),
                            !.vertices[i + 1] =
                                add_to_branch(@, branch_idx, cur_point.x)]
                   next_parent == get_next_parent(g2.vertices[i + 1])
               IN IF next_parent = None \/ parent_on_branch
                  THEN [g |-> g2, vertex_idx |-> i, i |-> i]
                  ELSE NormalWalk(g2, branch_idx, i, cur_point, i + 1)
          ELSE NormalWalk(g1, branch_idx, vertex_idx, cur_point, i + 1)

\* mutant: a NULL parent is marked consumed wherever the walk stopped
handle_normal_path_null_anywhere(g, start_at, last_point) ==
    LET alloc == get_available_colour(g, start_at)
        colour == alloc.colour
        branch_idx == Len(g.branches)
        vertex_id == g.vertices[start_at + 1].id
        g1 == [alloc.g EXCEPT
                 !.branches = Append(@, BranchNew(colour)),
                 !.vertices[start_at + 1] =
                     register_unavailable_point(
                         add_to_branch(@, branch_idx, last_point.x),
                         last_point.x, vertex_id, branch_idx)]
        w == NormalWalk(g1, branch_idx, start_at, last_point, start_at + 1)
        tail == get_next_parent(w.g.vertices[w.vertex_idx + 1])
        g2 == IF tail = Some(NULL_VERTEX_ID)
              THEN [w.g EXCEPT !.vertices[w.vertex_idx + 1] =
                                   register_parent_processed(@)]
              ELSE w.g
    IN [g2 EXCEPT !.branches[branch_idx + 1] = set_end(@, w.i),
                  !.available_colours[colour + 1] = w.i]

handle_normal_path(g, start_at, last_point) ==
    LET alloc == get_available_colour(g, start_at)
        colour == alloc.colour
        branch_idx == Len(g.branches)
        vertex_id == g.vertices[start_at + 1].id
        g1 == [alloc.g EXCEPT
                 !.branches = Append(@, BranchNew(colour)),
                 !.vertices[start_at + 1] =
                     register_unavailable_point(
                         add_to_branch(@, branch_idx, last_point.x),
                         last_point.x, vertex_id, branch_idx)]
        w == NormalWalk(g1, branch_idx, start_at, last_point, start_at + 1)
        tail == get_next_parent(w.g.vertices[w.vertex_idx + 1])
        g2 == IF w.i = Len(w.g.vertices) /\ tail = Some(NULL_VERTEX_ID)
              THEN [w.g EXCEPT !.vertices[w.vertex_idx + 1] =
                                   register_parent_processed(@)]
              ELSE w.g
    IN [g2 EXCEPT !.branches[branch_idx + 1] = set_end(@, w.i),
                  !.available_colours[colour + 1] = w.i]

\* mutant: a stitch line is anchored by the lane rule of the normal case
RECURSIVE MergeWalk_lane_rule(_, _, _, _, _, _)
MergeWalk_lane_rule(g, start_at, parent_id, parent_branch, last_point, i) ==
    IF ~(i < Len(g.vertices))
    THEN g
    ELSE
    LET hit == get_point_connecting_to(g.vertices[i + 1], parent_id,
                                       parent_branch)
        found_point_to_parent == hit /= None
        cur_point == IF found_point_to_parent THEN Unwrap(hit)
                     ELSE get_next_point(g.vertices[i + 1])
        vertex_is_committed == g.vertices[start_at + 1].is_committed
        locked_first == last_point.x < cur_point.x
        g1 == [g EXCEPT
                 !.branches[parent_branch + 1] =
                     add_line(@, last_point, cur_point, vertex_is_committed,
                              locked_first),
                 !.vertices[i + 1] =
                     register_unavailable_point(@, cur_point.x, parent_id,
                                                parent_branch)]
    IN IF found_point_to_parent
       THEN [g1 EXCEPT !.vertices[start_at + 1] = register_parent_processed(@)]
       ELSE MergeWalk_lane_rule(g1, start_at, parent_id, parent_branch,
                                cur_point, i + 1)

\* the for loop of handle_merge_path, from row i on
RECURSIVE MergeWalk(_, _, _, _, _, _)
MergeWalk(g, start_at, parent_id, parent_branch, last_point, i) ==
    IF ~(i < Len(g.vertices))
    THEN g
    ELSE
    LET hit == get_point_connecting_to(g.vertices[i + 1], parent_id,
                                       parent_branch)
        found_point_to_parent == hit /= None
        cur_point == IF found_point_to_parent THEN Unwrap(hit)
                     ELSE get_next_point(g.vertices[i + 1])
        vertex_is_committed == g.vertices[start_at + 1].is_committed
        locked_first == /\ ~found_point_to_parent
                        /\ i /= parent_id
                        /\ last_point.x < cur_point.x
        g1 == [g EXCEPT
                 !.branches[parent_branch + 1] =
                     add_line(@, last_point, cur_point, vertex_is_committed,
                              locked_first),
                 !.vertices[i + 1] =
                     register_unavailable_point(@, cur_point.x, parent_id,
                                                parent_branch)]
    IN IF found_point_to_parent
       THEN [g1 EXCEPT !.vertices[start_at + 1] = register_parent_processed(@)]
       ELSE MergeWalk(g1, start_at, parent_id, parent_branch, cur_point, i + 1)

handle_merge_path(g, start_at, parent_id, last_point) ==
    LET parent_branch == Unwrap(g.vertices[parent_id + 1].on_branch)
    IN MergeWalk(g, start_at, parent_id, parent_branch, last_point,
                 start_at + 1)

\* mutant: the merge-stitch case also wants the parent on another branch
TakesMergePath_other_branch(g, start_at) ==
    LET parent_id == get_next_parent(g.vertices[start_at + 1])
    IN /\ parent_id /= None
       /\ Unwrap(parent_id) /= NULL_VERTEX_ID
       /\ is_merge(g.vertices[start_at + 1])
       /\ ~is_not_on_branch(g.vertices[start_at + 1])
       /\ ~is_not_on_branch(g.vertices[Unwrap(parent_id) + 1])
       /\ g.vertices[Unwrap(parent_id) + 1].on_branch
              /= g.vertices[start_at + 1].on_branch

\* the dispatch condition of determine_path
TakesMergePath(g, start_at) ==
    LET parent_id == get_next_parent(g.vertices[start_at + 1])
    IN /\ parent_id /= None
       /\ Unwrap(parent_id) /= NULL_VERTEX_ID
       /\ is_merge(g.vertices[start_at + 1])
       /\ ~is_not_on_branch(g.vertices[start_at + 1])
       /\ ~is_not_on_branch(g.vertices[Unwrap(parent_id) + 1])

determine_path(g, start_at) ==
    LET parent_id == get_next_parent(g.vertices[start_at + 1])
        last_point == IF is_not_on_branch(g.vertices[start_at + 1])
                      THEN get_next_point(g.vertices[start_at + 1])
                      ELSE get_point(g.vertices[start_at + 1])
    IN IF TakesMergePath(g, start_at)
       THEN handle_merge_path(g, start_at, Unwrap(parent_id), last_point)
       ELSE handle_normal_path(g, start_at, last_point)

\* mutant: the main loop looks only at branch membership
NeedsPath_unattached_only(g, i) == is_not_on_branch(g.vertices[i + 1])

\* the condition of the main loop of load_commits for row i
NeedsPath(g, i) ==
    \/ get_next_parent(g.vertices[i + 1]) /= None
    \/ is_not_on_branch(g.vertices[i + 1])

\* ------------------------------------------------------------------------
\* load_commits up to its main loop (lines 558-594)
\* ------------------------------------------------------------------------
\* the three-way test on a parent entry (lines 574-579): a row of the
\* window, the NULL sentinel, or neither (the entry is passed over)
ParentKind(parent_id, commit_count) ==
    IF parent_id >= 0 /\ parent_id < commit_count THEN "row"
    ELSE IF parent_id = NULL_VERTEX_ID THEN "null"
    ELSE "skip"

\* the inner loop over one parent list, from position k on; ok = FALSE is the
\* panic of indexing self.vertices[*idx] out of bounds
RECURSIVE AddParents(_, _, _, _, _)
AddParents(vs, idx, parents, k, commit_count) ==
    IF k > Len(parents)
    THEN [ok |-> TRUE, vertices |-> vs]
    ELSE
    LET parent_id == parents[k]
        kind == ParentKind(parent_id, commit_count)
    IN IF kind = "skip"
       THEN AddParents(vs, idx, parents, k + 1, commit_count)
       ELSE IF idx >= Len(vs)
       THEN [ok |-> FALSE, vertices |-> vs]
       ELSE IF kind = "row"
       THEN AddParents(
                [vs EXCEPT ![idx + 1] = add_parent(@, parent_id),
                           ![parent_id + 1] = add_child(@, idx)],
                idx, parents, k + 1, commit_count)
       ELSE AddParents(
                [vs EXCEPT ![idx + 1] = add_parent(@, NULL_VERTEX_ID)],
                idx, parents, k + 1, commit_count)

\* the outer loop over parent_map, from entry e on
RECURSIVE SetParents(_, _, _, _)
SetParents(vs, parent_map, e, commit_count) ==
    IF e > Len(parent_map)
    THEN [ok |-> TRUE, vertices |-> vs]
    ELSE LET r == AddParents(vs, parent_map[e][1], parent_map[e][2], 1,
                             commit_count)
         IN IF r.ok
            THEN SetParents(r.vertices, parent_map, e + 1, commit_count)
            ELSE r

\* status "return": the early return for commit_count = 0; "panic": an index
\* out of bounds; "loop": the main loop is entered with i = 0
load_commits_setup(g, commit_count, parent_map, head_index, has_uncommitted) ==
    LET g0 == Clear(g)
    IN IF commit_count = 0
       THEN [status |-> "return", g |-> g0]
       ELSE
       LET fresh == [r \in 1..commit_count |-> VertexNew(r - 1)]
           linked == SetParents(fresh, parent_map, 1, commit_count)
           vs1 == IF has_uncommitted /\ Len(linked.vertices) > 0
                  THEN [linked.vertices EXCEPT ![1] = set_not_committed(@)]
                  ELSE linked.vertices
           vs2 == IF head_index /= None /\ Unwrap(head_index) < Len(vs1)
                  THEN [vs1 EXCEPT ![Unwrap(head_index) + 1] = set_current(@)]
                  ELSE vs1
       IN IF linked.ok
          THEN [status |-> "loop", g |-> [g0 EXCEPT !.vertices = vs2]]
          ELSE [status |-> "panic",
                g |-> [g0 EXCEPT !.vertices = linked.vertices]]

\* ------------------------------------------------------------------------
\* GitClient::get_commits_with_graph: the arguments it hands to load_commits
\* (lines 1145-1185) for a walk of count commits
\* ------------------------------------------------------------------------
\* mutant: the NULL sentinel is shifted like a row
AdjustParents_shifts_null(parents, commit_offset) ==
    [k \in 1..Len(parents) |-> parents[k] + commit_offset]

AdjustParents(parents, commit_offset) ==
    [k \in 1..Len(parents) |->
        IF parents[k] = NULL_VERTEX_ID THEN NULL_VERTEX_ID
        ELSE parents[k] + commit_offset]

LoadArgs(commit_count, parent_map, head_index, has_uncommitted) ==
    [commit_count |-> commit_count, parent_map |-> parent_map,
     head_index |-> head_index, has_uncommitted |-> has_uncommitted]

\* mutant: the synthetic row is given the first real commit as its parent
AdjustedArgs_synthetic_has_parent(count, parent_map, head_index, has_uncommitted) ==
    LET commit_offset == IF has_uncommitted THEN 1 ELSE 0
        adjusted_parent_map ==
            [e \in 1..Len(parent_map) |->
                <<parent_map[e][1] + commit_offset,
                  AdjustParents(parent_map[e][2], commit_offset)>>]
        final_parent_map ==
            IF has_uncommitted
            THEN <<<<0, <<1>>>>>> \o adjusted_parent_map
            ELSE adjusted_parent_map
        adjusted_head_index ==
            IF head_index = None THEN None
            ELSE Some(Unwrap(head_index) + commit_offset)
    IN LoadArgs(count + commit_offset, final_parent_map, adjusted_head_index,
                has_uncommitted)

AdjustedArgs(count, parent_map, head_index, has_uncommitted) ==
    LET commit_offset == IF has_uncommitted THEN 1 ELSE 0
        adjusted_parent_map ==
            [e \in 1..Len(parent_map) |->
                <<parent_map[e][1] + commit_offset,
                  AdjustParents(parent_map[e][2], commit_offset)>>]
        final_parent_map ==
            IF has_uncommitted
            THEN <<<<0, <<>>>>>> \o adjusted_parent_map
            ELSE adjusted_parent_map
        adjusted_head_index ==
            IF head_index = None THEN None
            ELSE Some(Unwrap(head_index) + commit_offset)
    IN LoadArgs(count + commit_offset, final_parent_map, adjusted_head_index,
                has_uncommitted)

\* ------------------------------------------------------------------------
\* Geometry: a path string is modelled by the sequence of the pieces that
\* are pushed onto it, each piece the tuple of its command letters and
\* numbers; the empty string is the empty sequence
\* ------------------------------------------------------------------------
NODE_CENTER_Y == ROW_HEIGHT \div 2

Max2(a, b) == IF a > b THEN a ELSE b
Min2(a, b) == IF a < b THEN a ELSE b

\* CURVE_OFFSET.min(limit) with CURVE_OFFSET = ROW_HEIGHT * 0.8; for these
\* constants the offset (22.4) is never the smaller one
CurveOffsetMin(limit) ==
    IF ROW_HEIGHT * 4 < limit * 5 THEN (ROW_HEIGHT * 4) \div 5 ELSE limit

LaneX(x) == x * COL_SPACING + X_OFFSET

\* mutant: the end row always gets the curve, anchored or not
draw_curve_segment_curve_at_end(line, row) ==
    LET x1 == LaneX(line.p1.x)
        x2 == LaneX(line.p2.x)
    IN IF line.p1.y = row
       THEN IF line.locked_first
            THEN <<<<"M", x1, NODE_CENTER_Y,
                     "C", x1,
                          NODE_CENTER_Y
                              + CurveOffsetMin(ROW_HEIGHT - NODE_CENTER_Y),
                          x2, ROW_HEIGHT, x2, ROW_HEIGHT>>>>
            ELSE <<<<"M", x1, NODE_CENTER_Y, "L", x1, ROW_HEIGHT>>>>
       ELSE IF line.p2.y = row
       THEN <<<<"M", x1, 0,
                "C", x1, 0,
                     x2, NODE_CENTER_Y - CurveOffsetMin(NODE_CENTER_Y),
                     x2, NODE_CENTER_Y>>>>
       ELSE <<>>

draw_curve_segment(line, row) ==
    LET x1 == LaneX(line.p1.x)
        x2 == LaneX(line.p2.x)
    IN IF line.p1.y = row
       THEN IF line.locked_first
            THEN <<<<"M", x1, NODE_CENTER_Y,
                     "C", x1,
                          NODE_CENTER_Y
                              + CurveOffsetMin(ROW_HEIGHT - NODE_CENTER_Y),
                          x2, ROW_HEIGHT, x2, ROW_HEIGHT>>>>
            ELSE <<<<"M", x1, NODE_CENTER_Y, "L", x1, ROW_HEIGHT>>>>
       ELSE IF line.p2.y = row
       THEN IF line.locked_first
            THEN <<<<"M", x2, 0, "L", x2, NODE_CENTER_Y>>>>
            ELSE <<<<"M", x1, 0,
                     "C", x1, 0,
                          x2, NODE_CENTER_Y - CurveOffsetMin(NODE_CENTER_Y),
                          x2, NODE_CENTER_Y>>>>
       ELSE <<>>

\* what one line adds to its bucket for the requested row
LinePieces(line, row) ==
    IF \/ line.p1.y = row
       \/ line.p2.y = row
       \/ (line.p1.y < row /\ line.p2.y > row)
    THEN LET x1 == LaneX(line.p1.x)
             y1 == line.p1.y * ROW_HEIGHT + NODE_CENTER_Y
             x2 == LaneX(line.p2.x)
             y2 == line.p2.y * ROW_HEIGHT + NODE_CENTER_Y
             row_top == row * ROW_HEIGHT
             row_bottom == row_top + ROW_HEIGHT
         IN IF x1 = x2
            THEN LET draw_y1 == Max2(y1, row_top)
                     draw_y2 == Min2(y2, row_bottom)
                 IN IF draw_y1 < draw_y2
                    THEN <<<<"M", x1, draw_y1 - row_top,
                             "L", x1, draw_y2 - row_top>>>>
                    ELSE <<>>
            ELSE IF line.p1.y = row \/ line.p2.y = row
                 THEN draw_curve_segment(line, row)
                 ELSE <<>>
    ELSE <<>>

RECURSIVE LinesPieces(_, _, _)
LinesPieces(lines, k, row) ==
    IF k > Len(lines) THEN <<>>
    ELSE LinePieces(lines[k], row) \o LinesPieces(lines, k + 1, row)

\* mutant: the colour index is not reduced to a bucket
RECURSIVE BucketPath_unreduced(_, _, _, _)
BucketPath_unreduced(bs, k, c, row) ==
    IF k > Len(bs) THEN <<>>
    ELSE (IF bs[k].colour = c
          THEN LinesPieces(bs[k].lines, 1, row)
          ELSE <<>>)
         \o BucketPath_unreduced(bs, k + 1, c, row)

\* the pieces pushed onto bucket c by the branches from index k on
RECURSIVE BucketPath(_, _, _, _)
BucketPath(bs, k, c, row) ==
    IF k > Len(bs) THEN <<>>
    ELSE (IF bs[k].colour % BUCKETS = c
          THEN LinesPieces(bs[k].lines, 1, row)
          ELSE <<>>)
         \o BucketPath(bs, k + 1, c, row)

\* mutant: the node marker is drawn only on a row that a line touches
generate_svg_paths_node_with_lines(g, row) ==
    [paths |-> [c \in 1..BUCKETS |-> BucketPath(g.branches, 1, c - 1, row)],
     node_path |->
         IF /\ row < Len(g.vertices)
            /\ \E c \in 1..BUCKETS :
                  BucketPath(g.branches, 1, c - 1, row) /= <<>>
         THEN <<<<"M", LaneX(g.vertices[row + 1].x), NODE_CENTER_Y,
                  "m", 0 - NODE_RADIUS, 0,
                  "a", NODE_RADIUS, NODE_RADIUS, 0, 1, 0, NODE_RADIUS * 2, 0,
                  "a", NODE_RADIUS, NODE_RADIUS, 0, 1, 0,
                       0 - NODE_RADIUS * 2, 0>>>>
         ELSE <<>>]

generate_svg_paths(g, row) ==
    [paths |-> [c \in 1..BUCKETS |-> BucketPath(g.branches, 1, c - 1, row)],
     node_path |->
         IF row < Len(g.vertices)
         THEN <<<<"M", LaneX(g.vertices[row + 1].x), NODE_CENTER_Y,
                  "m", 0 - NODE_RADIUS, 0,
                  "a", NODE_RADIUS, NODE_RADIUS, 0, 1, 0, NODE_RADIUS * 2, 0,
                  "a", NODE_RADIUS, NODE_RADIUS, 0, 1, 0,
                       0 - NODE_RADIUS * 2, 0>>>>
         ELSE <<>>]

get_vertex_column(g, row) ==
    IF row < Len(g.vertices) THEN g.vertices[row + 1].x ELSE 0

get_vertex_colour(g, row) ==
    IF row < Len(g.vertices)
    THEN Vertex_get_colour(g.vertices[row + 1], g.branches)
    ELSE 0

is_vertex_merge(g, row) ==
    IF row < Len(g.vertices) THEN is_merge(g.vertices[row + 1]) ELSE FALSE

\* what the caller reads for one row (lines 1262-1266)
RowData(g, row) ==
    LET svg == generate_svg_paths(g, row)
    IN [row |-> row,
        column |-> get_vertex_column(g, row),
        colour |-> get_vertex_colour(g, row),
        is_merge |-> is_vertex_merge(g, row),
        paths |-> svg.paths,
        node_path |-> svg.node_path]

\* ------------------------------------------------------------------------
\* load_commits as a whole: the main loop from row i on, for inputs on which
\* it ends
\* ------------------------------------------------------------------------
RECURSIVE MainLoop(_, _)
MainLoop(g, i) ==
    IF ~(i < Len(g.vertices)) THEN g
    ELSE IF NeedsPath(g, i) THEN MainLoop(determine_path(g, i), i)
    ELSE MainLoop(g, i + 1)

load_commits(g, a) ==
    LET s == load_commits_setup(g, a.commit_count, a.parent_map,
                                a.head_index, a.has_uncommitted)
    IN IF s.status = "loop" THEN MainLoop(s.g, 0) ELSE s.g

\* ------------------------------------------------------------------------
\* The recent-repository list (lines 202-292). A path is represented by a
\* number; the stored file is the list that load_recent_repos reads and
\* save_recent_repos writes. Each operator gives the list stored after the
\* call, which is also the list the call returns.
\* ------------------------------------------------------------------------
\* Vec::retain(|p| p != path)
retain(repos, path) == SelectSeq(repos, LAMBDA p : p /= path)

\* Vec::insert(index, element), index <= len
insert(repos, index, element) ==
    SubSeq(repos, 1, index) \o <<element>> \o
    SubSeq(repos, index + 1, Len(repos))

\* Vec::remove(index), index < len: the list without the element
remove(repos, index) ==
    SubSeq(repos, 1, index) \o SubSeq(repos, index + 2, Len(repos))

\* Vec::truncate(len)
truncate(repos, len) ==
    IF len < Len(repos) THEN SubSeq(repos, 1, len) ELSE repos

\* mutant: an entry the list already holds is not removed first
add_recent_repo_keeps_existing(repos, path) ==
    truncate(insert(repos, 0, path), MAX_RECENT_REPOS)

add_recent_repo(repos, path) ==
    truncate(insert(retain(repos, path), 0, path), MAX_RECENT_REPOS)

remove_recent_repo(repos, index) ==
    IF index < Len(repos) THEN remove(repos, index) ELSE repos

reorder_recent_repos(repos, from_idx, to_idx) ==
    IF from_idx < Len(repos) /\ to_idx <= Len(repos) /\ from_idx /= to_idx
    THEN LET item == repos[from_idx + 1]
             rest == remove(repos, from_idx)
             insert_idx == IF to_idx > from_idx THEN to_idx - 1 ELSE to_idx
         IN insert(rest, Min2(insert_idx, Len(rest)), item)
    ELSE repos

\* ------------------------------------------------------------------------
\* Inputs
\* ------------------------------------------------------------------------
\* the values a parent entry of row r of n takes:
\*   "ordered"  what a walk sorted TIME | TOPOLOGICAL gives: a parent inside
\*              the window is a later row, one outside is NULL_VERTEX_ID;
\*   "any_row"  NULL_VERTEX_ID or any row below n, in any order;
\*   "beyond"   as "ordered", or a row that is not below n
ParentChoices(kind, r, n) ==
    CASE kind = "ordered" -> {NULL_VERTEX_ID} \cup ((r + 1)..(n - 1))
      [] kind = "any_row" -> {NULL_VERTEX_ID} \cup (0..(n - 1))
      [] kind = "beyond" -> {NULL_VERTEX_ID} \cup ((r + 1)..(n + 1))

\* the parent maps of rows r..n-1 with at most e parent entries in all
RECURSIVE ParentMaps(_, _, _, _)
ParentMaps(kind, r, n, e) ==
    IF r >= n THEN {<<>>}
    ELSE UNION {{<<<<r, l>>>> \o rest :
                    l \in [1..k -> ParentChoices(kind, r, n)],
                    rest \in ParentMaps(kind, r + 1, n, e - k)} :
                k \in 0..e}

\* what get_commits_with_graph hands over for walks of up to m commits
WalkArgs(m) ==
    UNION {{AdjustedArgs(n, pm, None, hu) :
               pm \in ParentMaps("ordered", 0, n, MaxParentRefs),
               hu \in BOOLEAN} :
           n \in 0..m}

\* what get_commits_with_graph has before it builds the graph: the number
\* of commits walked, their parent_map, the HEAD row, has_uncommitted
Walk(count, parent_map, head_index, has_uncommitted) ==
    [count |-> count, parent_map |-> parent_map, head_index |-> head_index,
     has_uncommitted |-> has_uncommitted]

\* arguments for load_commits itself, parent entries of the given kind
DirectArgs(kind, m, e) ==
    UNION {{LoadArgs(n, pm, None, FALSE) : pm \in ParentMaps(kind, 0, n, e)} :
           n \in 0..m}

\* row k's only parent is k + 1, the last row's only parent is NULL
Linear(n) ==
    LoadArgs(n,
             [r \in 1..n |->
                 <<r - 1, IF r < n THEN <<r>> ELSE <<NULL_VERTEX_ID>>>>],
             None, FALSE)

IsLinear(a) == a.commit_count >= 1 /\ a = Linear(a.commit_count)

\* a merge of rows 1 and 2, which both descend from row 3
ScenarioB ==
    LoadArgs(4, <<<<0, <<1, 2>>>>, <<1, <<3>>>>, <<2, <<3>>>>,
                  <<3, <<NULL_VERTEX_ID>>>>>>, None, FALSE)

\* a merge whose second parent is reached by its first parent's branch
\* through a row in between
ScenarioStitch ==
    LoadArgs(4, <<<<0, <<1, 3>>>>, <<1, <<3>>>>, <<2, <<NULL_VERTEX_ID>>>>,
                  <<3, <<NULL_VERTEX_ID>>>>>>, None, FALSE)

\* two branches with lines, the second starting below the end of the first
ScenarioReuse ==
    LoadArgs(4, <<<<0, <<1>>>>, <<1, <<>>>>, <<2, <<3>>>>, <<3, <<>>>>>>,
             None, FALSE)

\* a branch that runs to the bottom beside three single-row branches
ScenarioPalette ==
    LoadArgs(4, <<<<0, <<NULL_VERTEX_ID>>>>, <<1, <<>>>>, <<2, <<>>>>,
                  <<3, <<>>>>>>, None, FALSE)

\* a walk that stops on a claimed vertex whose next parent is NULL
ScenarioNullTail ==
    LoadArgs(4, <<<<0, <<2>>>>, <<1, <<2>>>>, <<2, <<3, NULL_VERTEX_ID>>>>,
                  <<3, <<>>>>>>, None, FALSE)

\* a merge whose second parent's branch lies in a higher lane at the row
\* where the stitch finds its reservation
ScenarioLock ==
    LoadArgs(4, <<<<0, <<2>>>>, <<1, <<3>>>>, <<2, <<NULL_VERTEX_ID, 3>>>>,
                  <<3, <<>>>>>>, None, FALSE)

\* a branch that ends at row 1, and below it the merge of ScenarioStitch
ScenarioStitchReuse ==
    LoadArgs(6, <<<<0, <<1>>>>, <<1, <<>>>>, <<2, <<3, 5>>>>, <<3, <<5>>>>,
                  <<4, <<NULL_VERTEX_ID>>>>, <<5, <<NULL_VERTEX_ID>>>>>>,
             None, FALSE)

WalkInputs ==
    WalkArgs(MaxRows) \cup {Linear(n) : n \in 1..MaxLinear}
                      \cup {ScenarioB, ScenarioStitch, ScenarioReuse,
                            ScenarioPalette, ScenarioNullTail, ScenarioLock,
                            ScenarioStitchReuse}

ReloadInputs == DirectArgs("ordered", MaxReloadRows, MaxParentRefs)

\* more branches side by side than there are buckets: nine edges leave the
\* window from row 0 and pass row 1
ScenarioWide ==
    LoadArgs(2, <<<<0, [k \in 1..(BUCKETS + 1) |-> NULL_VERTEX_ID]>>,
                  <<1, <<>>>>>>, None, FALSE)

GeometryInputs ==
    {Linear(n) : n \in 1..MaxLinear}
        \cup {ScenarioB, ScenarioStitch, ScenarioLock, ScenarioWide}

Scenarios ==
    {ScenarioB, ScenarioStitch, ScenarioReuse, ScenarioPalette,
     ScenarioNullTail, ScenarioLock}

\* walks with a HEAD row or none, with and without uncommitted changes
HeadWalks ==
    UNION {{Walk(n, pm, h, hu) :
               pm \in ParentMaps("ordered", 0, n, MaxParentRefs),
               h \in {None} \cup {Some(r) : r \in 0..(n - 1)},
               hu \in BOOLEAN} :
           n \in 0..MaxReloadRows}
    \cup {Walk(a.commit_count, a.parent_map, h, hu) :
              a \in Scenarios, h \in {None, Some(0)}, hu \in BOOLEAN}

\* a row whose only parent entry names the row itself or an earlier row
HasLoneBackReference(a) ==
    \E e \in 1..Len(a.parent_map) :
        /\ Len(a.parent_map[e][2]) = 1
        /\ a.parent_map[e][2][1] >= 0
        /\ a.parent_map[e][2][1] <= a.parent_map[e][1]

\* parent entries that name any row.  A lone back reference is left out: on
\* it every turn of the main loop pushes one more branch, so the builder of
\* such a load has no bound
LooseInputs ==
    {a \in DirectArgs("any_row", MaxLooseRows, MaxLooseRefs) :
        ~HasLoneBackReference(a)}

BeyondInputs == DirectArgs("beyond", MaxRows, MaxParentRefs)

\* the parent lists tried for a parent_map entry whose row index is not
\* below n: empty, NULL, a row beyond the window, a row of the window
StrayParents(n) ==
    {<<>>, <<NULL_VERTEX_ID>>, <<n>>} \cup {<<r>> : r \in 0..(n - 1)}

\* arguments whose parent_map ends with an entry for a row index >= N
StrayInputs ==
    UNION {{[a EXCEPT !.parent_map = Append(@, <<idx, l>>)] :
               idx \in a.commit_count..(a.commit_count + 1),
               l \in StrayParents(a.commit_count)} :
           a \in ReloadInputs}

\* the repository paths tried, and the indices tried on a list: those of its
\* entries, its length and one beyond
Paths == 1..(MAX_RECENT_REPOS + MaxSparePaths)

Indices(repos) == 0..(Len(repos) + 1)

\* ------------------------------------------------------------------------
\* State
\* ------------------------------------------------------------------------
VARIABLES
    vertices,           \* GraphBuilder.vertices
    branches,           \* GraphBuilder.branches
    available_colours,  \* GraphBuilder.available_colours
    pc,                 \* "new", "loading", "loaded", "panicked"
    i,                  \* the row cursor of the main loop of load_commits
    args,               \* the arguments of the running or last load_commits
    loads,              \* the number of load_commits calls on this builder
    path_log,           \* the determine_path calls of this load, in order
    lastCall,           \* the step taken last
    tick,               \* flips at every determine_path call of the main loop
    result,             \* what the last per-row query returned
    walk,               \* the history get_commits_with_graph last walked
    recent_repos,       \* the stored list of recent repositories
    recent_ops          \* the operations on that list after the first opens

vars == <<vertices, branches, available_colours, pc, i, args, loads,
          path_log, lastCall, tick, result, walk, recent_repos, recent_ops>>

Builder ==
    [vertices |-> vertices, branches |-> branches,
     available_colours |-> available_colours]

SetBuilder(g) ==
    /\ vertices' = g.vertices
    /\ branches' = g.branches
    /\ available_colours' = g.available_colours

Call(op, row) == [op |-> op, row |-> row]

\* the record of one determine_path(start_at) call on builder g: the case
\* taken, the parent it is about, and the branch its lines go to (the new
\* branch in the normal case, the parent's branch in the merge-stitch case)
PathCall(kind, g, start_at) ==
    LET parent_id == get_next_parent(g.vertices[start_at + 1])
    IN [kind |-> kind, row |-> start_at, parent |-> parent_id,
        branch |-> IF kind = "merge"
                   THEN Unwrap(g.vertices[Unwrap(parent_id) + 1].on_branch)
                   ELSE Len(g.branches)]

\* the log keeps the first MaxCalls calls of a load
Logged(log, call) == IF Len(log) < MaxCalls THEN Append(log, call) ELSE log

\* per branch, the row at which it was created
CreatedAt ==
    LET made == SelectSeq(path_log, LAMBDA c : c.kind = "normal")
    IN [k \in 1..Len(made) |-> made[k].row]

Init ==
    /\ vertices = GraphBuilderNew.vertices
    /\ branches = GraphBuilderNew.branches
    /\ available_colours = GraphBuilderNew.available_colours
    /\ pc = "new"
    /\ i = 0
    /\ args = LoadArgs(0, <<>>, None, FALSE)
    /\ loads = 0
    /\ path_log = <<>>
    /\ lastCall = Call("new", 0)
    /\ tick = FALSE
    /\ result = None
    /\ walk = Walk(0, <<>>, None, FALSE)
    /\ recent_repos = <<>>
    /\ recent_ops = 0

\* load_commits is entered with arguments a: its set-up, up to the main loop
StartLoad(a) ==
    LET r == load_commits_setup(Builder, a.commit_count, a.parent_map,
                                a.head_index, a.has_uncommitted)
    IN /\ SetBuilder(r.g)
       /\ pc' = CASE r.status = "return" -> "loaded"
                  [] r.status = "panic" -> "panicked"
                  [] OTHER -> "loading"
       /\ i' = 0
       /\ args' = a
       /\ loads' = loads + 1
       /\ path_log' = <<>>
       /\ lastCall' = Call("load", 0)
       /\ tick' = FALSE
       /\ result' = None

\* load_commits is entered with arguments a
LoadCommits(a) ==
    StartLoad(a) /\ UNCHANGED <<walk, recent_repos, recent_ops>>

\* get_commits_with_graph builds a fresh GraphBuilder and loads the walk
GetCommitsWithGraph ==
    /\ pc = "new"
    /\ \E a \in WalkInputs : LoadCommits(a)

\* one turn of the main loop that calls determine_path, merge-stitch case
DetermineMergePath ==
    /\ pc = "loading"
    /\ i < Len(vertices)
    /\ NeedsPath(Builder, i)
    /\ TakesMergePath(Builder, i)
    /\ SetBuilder(determine_path(Builder, i))
    /\ path_log' = Logged(path_log, PathCall("merge", Builder, i))
    /\ lastCall' = Call("merge", i)
    /\ tick' = ~tick
    /\ UNCHANGED <<pc, i, args, loads, result, walk,
                   recent_repos, recent_ops>>

\* one turn of the main loop that calls determine_path, normal case
DetermineNormalPath ==
    /\ pc = "loading"
    /\ i < Len(vertices)
    /\ NeedsPath(Builder, i)
    /\ ~TakesMergePath(Builder, i)
    /\ SetBuilder(determine_path(Builder, i))
    /\ path_log' = Logged(path_log, PathCall("normal", Builder, i))
    /\ lastCall' = Call("normal", i)
    /\ tick' = ~tick
    /\ UNCHANGED <<pc, i, args, loads, result, walk,
                   recent_repos, recent_ops>>

\* one turn of the main loop that steps over a resolved row
Advance ==
    /\ pc = "loading"
    /\ i < Len(vertices)
    /\ ~NeedsPath(Builder, i)
    /\ i' = i + 1
    /\ lastCall' = Call("advance", i)
    /\ UNCHANGED <<vertices, branches, available_colours, pc, args, loads,
                   path_log, tick, result, walk,
                   recent_repos, recent_ops>>

\* the main loop ends and load_commits returns
Return ==
    /\ pc = "loading"
    /\ ~(i < Len(vertices))
    /\ pc' = "loaded"
    /\ lastCall' = Call("return", i)
    /\ UNCHANGED <<vertices, branches, available_colours, i, args, loads,
                   path_log, tick, result, walk,
                   recent_repos, recent_ops>>

\* the per-row queries of the caller, for any row
MaxQueryRow == MaxLinear + 1

Query ==
    /\ pc \in {"new", "loaded"}
    /\ \E row \in 0..MaxQueryRow :
          /\ result' = Some(RowData(Builder, row))
          /\ lastCall' = Call("query", row)
    /\ UNCHANGED <<vertices, branches, available_colours, pc, i, args, loads,
                   path_log, tick, walk,
                   recent_repos, recent_ops>>

\* load_commits is called again on a builder that has loaded before
Reload ==
    /\ pc = "loaded"
    /\ loads < MaxLoads
    /\ \E a \in ReloadInputs : LoadCommits(a)

\* the first load_commits of a builder that will be reused
LoadFirst ==
    /\ pc = "new"
    /\ \E a \in ReloadInputs : LoadCommits(a)

\* load_commits with parent entries that name any row
LoadLoose ==
    /\ pc = "new"
    /\ \E a \in LooseInputs : LoadCommits(a)

\* load_commits with parent entries that may lie beyond the last row
LoadBeyond ==
    /\ pc = "new"
    /\ \E a \in BeyondInputs : LoadCommits(a)

\* get_commits_with_graph adjusts a walk and loads it into a fresh builder
WalkAndLoad ==
    /\ pc = "new"
    /\ \E w \in HeadWalks :
          /\ StartLoad(AdjustedArgs(w.count, w.parent_map, w.head_index,
                                    w.has_uncommitted))
          /\ walk' = w
          /\ UNCHANGED <<recent_repos, recent_ops>>

\* a load whose rows are then drawn
LoadForGeometry ==
    /\ pc = "new"
    /\ \E a \in GeometryInputs : LoadCommits(a)

\* load_commits with a parent_map entry for a row index that is not below N
LoadStray ==
    /\ pc = "new"
    /\ \E a \in StrayInputs : LoadCommits(a)

\* the first opens: a repository that is not in the list is opened, the
\* lowest-numbered such path each time
OpenNewRepo ==
    /\ recent_ops = 0
    /\ \E path \in Paths :
          /\ \A k \in 1..Len(recent_repos) : recent_repos[k] /= path
          /\ \A q \in 1..(path - 1) :
                \E k \in 1..Len(recent_repos) : recent_repos[k] = q
          /\ recent_repos' = add_recent_repo(recent_repos, path)
          /\ lastCall' = [op |-> "add", path |-> path]
    /\ UNCHANGED <<vertices, branches, available_colours, pc, i, args, loads,
                   path_log, tick, result, walk, recent_ops>>

\* a repository is opened: add_recent_repo(path)
AddRecentRepo ==
    /\ recent_ops < MaxRecentOps
    /\ \E path \in Paths :
          /\ recent_repos' = add_recent_repo(recent_repos, path)
          /\ lastCall' = [op |-> "add", path |-> path]
    /\ recent_ops' = recent_ops + 1
    /\ UNCHANGED <<vertices, branches, available_colours, pc, i, args, loads,
                   path_log, tick, result, walk>>

\* remove_recent_repo(index)
RemoveRecentRepo ==
    /\ recent_ops < MaxRecentOps
    /\ \E index \in Indices(recent_repos) :
          /\ recent_repos' = remove_recent_repo(recent_repos, index)
          /\ lastCall' = [op |-> "remove", index |-> index]
    /\ recent_ops' = recent_ops + 1
    /\ UNCHANGED <<vertices, branches, available_colours, pc, i, args, loads,
                   path_log, tick, result, walk>>

\* reorder_recent_repos(from_idx, to_idx)
ReorderRecentRepos ==
    /\ recent_ops < MaxRecentOps
    /\ \E from_idx, to_idx \in Indices(recent_repos) :
          /\ recent_repos' =
                 reorder_recent_repos(recent_repos, from_idx, to_idx)
          /\ lastCall' = [op |-> "reorder", from_idx |-> from_idx,
                           to_idx |-> to_idx]
    /\ recent_ops' = recent_ops + 1
    /\ UNCHANGED <<vertices, branches, available_colours, pc, i, args, loads,
                   path_log, tick, result, walk>>

Next ==
    \/ GetCommitsWithGraph
    \/ DetermineMergePath
    \/ DetermineNormalPath
    \/ Advance
    \/ Return
    \/ Query

Spec == Init /\ [][Next]_vars

\* a builder that is loaded more than once
ReloadNext ==
    \/ LoadFirst
    \/ Reload
    \/ DetermineMergePath
    \/ DetermineNormalPath
    \/ Advance
    \/ Return

ReloadSpec == Init /\ [][ReloadNext]_vars

\* load_commits on input with parent entries beyond the last row
BeyondNext ==
    \/ LoadBeyond
    \/ DetermineMergePath
    \/ DetermineNormalPath
    \/ Advance
    \/ Return

BeyondSpec == Init /\ [][BeyondNext]_vars

\* the recent-repository list under add, remove and reorder
RecentNext ==
    \/ OpenNewRepo
    \/ AddRecentRepo
    \/ RemoveRecentRepo
    \/ ReorderRecentRepos

RecentSpec == Init /\ [][RecentNext]_vars

\* get_commits_with_graph on walks with a HEAD row
WalkNext ==
    \/ WalkAndLoad
    \/ DetermineMergePath
    \/ DetermineNormalPath
    \/ Advance
    \/ Return

WalkSpec == Init /\ [][WalkNext]_vars

\* a load followed by the per-row queries
GeometryNext ==
    \/ LoadForGeometry
    \/ DetermineMergePath
    \/ DetermineNormalPath
    \/ Advance
    \/ Return
    \/ Query

GeometrySpec == Init /\ [][GeometryNext]_vars

\* load_commits on input with a parent_map entry for a row index >= N
StrayNext ==
    \/ LoadStray
    \/ DetermineMergePath
    \/ DetermineNormalPath
    \/ Advance
    \/ Return

StraySpec == Init /\ [][StrayNext]_vars

\* load_commits on input whose parent entries name rows in any order.  The
\* call is synchronous, so its loop keeps taking turns: weak fairness
LooseNext ==
    \/ LoadLoose
    \/ DetermineMergePath
    \/ DetermineNormalPath
    \/ Advance
    \/ Return

LooseSpec == Init /\ [][LooseNext]_vars /\ WF_vars(LooseNext)

\* ------------------------------------------------------------------------
\* Claims
\* ------------------------------------------------------------------------

\* C1: for every input whose parent entries are NULL or a row below N, load
\* terminates and leaves exactly N rows to query.
C1_LoadTerminates ==
    /\ (pc = "loading") ~> (pc = "loaded")
    /\ [](pc = "loaded" => Len(vertices) = args.commit_count)

Rows == 0..(Len(vertices) - 1)

\* a vertex is resolved: attached to a branch, every parent edge consumed
Resolved(v) == v.on_branch /= None /\ v.next_parent = Len(v.parents)

\* C2: whenever load returns with N > 0 every vertex is attached to a branch
\* and has its parent cursor at the number of its recorded parents; and while
\* the main loop runs, every row the cursor has passed is in that state.
C2_AllResolved ==
    /\ (pc = "loaded" /\ args.commit_count > 0)
           => \A r \in Rows : Resolved(vertices[r + 1])
    /\ pc = "loading"
           => \A r \in Rows : r < i => Resolved(vertices[r + 1])

\* a load of three rows or more, one of them a merge, has returned
C2_Witness ==
    /\ pc = "loaded"
    /\ lastCall.op = "return"
    /\ Len(vertices) >= 3
    /\ \E r \in Rows : is_merge(vertices[r + 1])
    /\ \E k \in 1..Len(path_log) : path_log[k].kind = "merge"

\* C3: for a linear history of N >= 1 rows load produces exactly one branch,
\* with colour 0 and end = N; every row has lane 0 and colour 0; and the
\* branch's lines run in lane 0 from row 0 to row N-1.
C3_LinearHistory ==
    (pc = "loaded" /\ IsLinear(args)) =>
        LET n == args.commit_count
        IN /\ Len(vertices) = n
           /\ Len(branches) = 1
           /\ branches[1].colour = 0
           /\ branches[1].end = n
           /\ \A r \in Rows :
                 /\ get_vertex_column(Builder, r) = 0
                 /\ get_vertex_colour(Builder, r) = 0
                 /\ vertices[r + 1].on_branch = Some(0)
           /\ Len(branches[1].lines) = n - 1
           /\ \A k \in 1..(n - 1) :
                 /\ branches[1].lines[k].p1 = Point(0, k - 1)
                 /\ branches[1].lines[k].p2 = Point(0, k)

\* the linear history of five rows (scenario A) has been loaded
C3_Witness ==
    /\ pc = "loaded"
    /\ args = Linear(5)
    /\ branches[1].end = 5

\* C7: for any two distinct branches with the same colour index, the end row
\* of the one created first is strictly less than the row at which the later
\* one was created; and each palette slot records the end of the branch that
\* used it last.
C7_ColourReuse ==
    /\ Len(CreatedAt) = Len(branches)
    /\ \A b1, b2 \in 1..Len(branches) :
          (b1 < b2 /\ branches[b1].colour = branches[b2].colour)
              => branches[b1].end < CreatedAt[b2]
    /\ \A c \in 1..Len(available_colours) :
          LET users == {b \in 1..Len(branches) : branches[b].colour = c - 1}
          IN /\ users /= {}
             /\ available_colours[c] =
                    branches[CHOOSE b \in users : \A o \in users : o <= b].end
    /\ \A b \in 1..Len(branches) :
          branches[b].colour < Len(available_colours)

\* a later branch has taken over the colour of a branch that ended above it
C7_Witness ==
    \E b1, b2 \in 1..Len(branches) :
        /\ b1 < b2
        /\ branches[b1].colour = branches[b2].colour
        /\ Len(branches[b1].lines) > 0
        /\ Len(branches[b2].lines) > 0

\* C10: for any row >= N (also on a builder that has loaded nothing) the lane
\* query returns 0, the colour query 0, the merge-flag query false, and the
\* geometry is eight empty bucket paths and an empty node-marker path; and for
\* every row < N after load the colour query returns the colour of the branch
\* that claimed the vertex.
C10_QueryDefaults ==
    result /= None =>
        LET q == Unwrap(result)
        IN /\ q.row >= args.commit_count =>
                 /\ q.column = 0
                 /\ q.colour = 0
                 /\ q.is_merge = FALSE
                 /\ Len(q.paths) = BUCKETS
                 /\ \A c \in 1..BUCKETS : q.paths[c] = <<>>
                 /\ q.node_path = <<>>
           /\ q.row < args.commit_count =>
                 /\ vertices[q.row + 1].on_branch /= None
                 /\ q.colour =
                        branches[Unwrap(vertices[q.row + 1].on_branch) + 1].colour

\* a row past the end of a loaded graph that has lines has been queried, and
\* so has a row whose branch has a colour other than its index
C10_Witness ==
    /\ result /= None
    /\ pc = "loaded"
    /\ Unwrap(result).row >= args.commit_count
    /\ args.commit_count >= 2
    /\ \E b \in 1..Len(branches) : Len(branches[b].lines) > 0

\* the end points of the lines of branch b (1-based)
EndPoints(b) ==
    {branches[b].lines[k].p1 : k \in 1..Len(branches[b].lines)}
        \cup {branches[b].lines[k].p2 : k \in 1..Len(branches[b].lines)}

SharedPoints(b1, b2) == EndPoints(b1) \cap EndPoints(b2)

\* pt is the point of the vertex of its row, reserved there for that vertex
IsOwnPoint(pt) ==
    LET v == vertices[pt.y + 1]
    IN /\ v.on_branch /= None
       /\ v.x = pt.x
       /\ pt.x < Len(v.connections)
       /\ v.connections[pt.x + 1] =
              UnavailablePoint(v.id, Unwrap(v.on_branch))

\* C4 as claimed: for scenario B load creates exactly two branches, the
\* first created at row 0 and the second at row 2; row 0's second parent edge
\* is drawn by the merge-stitch case onto row 2's branch; and the two branches
\* have a common point only at row 3's point.
C4_ScenarioB_AsClaimed ==
    (pc = "loaded" /\ args = ScenarioB) =>
        /\ Len(branches) = 2
        /\ CreatedAt = <<0, 2>>
        /\ \E k \in 1..Len(path_log) :
              /\ path_log[k].kind = "merge"
              /\ path_log[k].row = 0
              /\ path_log[k].parent = Some(2)
              /\ Some(path_log[k].branch) = vertices[3].on_branch
        /\ SharedPoints(1, 2) = {get_point(vertices[4])}

\* C4 as amended: for scenario B load creates exactly two branches, both by
\* determine_path at row 0 in the normal case (the merge-stitch case never
\* runs); rows 0, 1, 3 are on the first branch in lane 0 and row 2 is on the
\* second in lane 1; row 0's second parent edge is the second branch's lines
\* (0,0)-(1,1)-(1,2), which go on to row 3's point (0,3); the two branches
\* have common points exactly at row 0's point and at row 3's point.
C4_ScenarioB ==
    (pc = "loaded" /\ args = ScenarioB) =>
        /\ Len(branches) = 2
        /\ CreatedAt = <<0, 0>>
        /\ \A k \in 1..Len(path_log) : path_log[k].kind = "normal"
        /\ [r \in 1..4 |-> vertices[r].on_branch]
               = <<Some(0), Some(0), Some(1), Some(0)>>
        /\ [r \in 1..4 |-> vertices[r].x] = <<0, 0, 1, 0>>
        /\ [k \in 1..Len(branches[2].lines) |->
               <<branches[2].lines[k].p1, branches[2].lines[k].p2>>]
               = <<<<Point(0, 0), Point(1, 1)>>, <<Point(1, 1), Point(1, 2)>>,
                   <<Point(1, 2), Point(0, 3)>>>>
        /\ branches[1].end = 4
        /\ branches[2].end = 3
        /\ SharedPoints(1, 2) = {Point(0, 0), Point(0, 3)}

\* scenario B has been loaded
C4_Witness ==
    /\ pc = "loaded"
    /\ args = ScenarioB
    /\ Len(path_log) = 2

HasReservation(v, connects_to, on_branch) ==
    \E k \in 1..Len(v.connections) :
        v.connections[k] = UnavailablePoint(connects_to, on_branch)

\* C5: whenever the merge-stitch case runs for the vertex at row m whose next
\* parent p (m < p < N) is on branch b, the lines it draws start at the
\* vertex's point, take one row each and end at the first row after m that
\* already held a reservation for (p, b), in the lane of that reservation;
\* that row is not greater than p; the lines are all appended to branch b and
\* no other branch changes; and the vertex's parent cursor advances by one.
C5_MergeStitch ==
    [][(/\ pc = "loading"
        /\ i < Len(vertices)
        /\ NeedsPath(Builder, i)
        /\ TakesMergePath(Builder, i)
        /\ Unwrap(get_next_parent(vertices[i + 1])) > i)
       =>
       LET m == i
           p == Unwrap(get_next_parent(vertices[m + 1]))
           b == Unwrap(vertices[p + 1].on_branch)
           stops == {r \in (m + 1)..(Len(vertices) - 1) :
                        HasReservation(vertices[r + 1], p, b)}
           old == branches[b + 1].lines
           new == branches'[b + 1].lines
       IN /\ stops /= {}
          /\ Min(stops) <= p
          /\ Len(new) = Len(old) + (Min(stops) - m)
          /\ SubSeq(new, 1, Len(old)) = old
          /\ new[Len(old) + 1].p1 = get_point(vertices[m + 1])
          /\ \A k \in 1..(Min(stops) - m) :
                /\ new[Len(old) + k].p1.y = m + k - 1
                /\ new[Len(old) + k].p2.y = m + k
                /\ k > 1 => new[Len(old) + k].p1 = new[Len(old) + k - 1].p2
          /\ LET last == new[Len(new)].p2
             IN /\ last.x < Len(vertices[last.y + 1].connections)
                /\ vertices[last.y + 1].connections[last.x + 1]
                       = UnavailablePoint(p, b)
          /\ Len(branches') = Len(branches)
          /\ \A k \in 1..Len(branches) : k /= b + 1 => branches'[k] = branches[k]
          /\ vertices'[m + 1].next_parent = vertices[m + 1].next_parent + 1
    ]_vars

\* a merge-stitch has just ended on a reservation above its parent's row,
\* after a waypoint in a new lane
C5_Witness ==
    /\ lastCall.op = "merge"
    /\ path_log /= <<>>
    /\ LET c == path_log[Len(path_log)]
           ls == branches[c.branch + 1].lines
       IN /\ c.kind = "merge"
          /\ Len(ls) >= 2
          /\ ls[Len(ls)].p2.y < Unwrap(c.parent)
          /\ ls[Len(ls)].p1.y > c.row

\* C6: every end point of a line of a branch lies in a lane that is reserved
\* at its row, and reserved for that branch unless the point is the own point
\* of the row's vertex; so two different branches have a line end point in
\* common only at the own point of a vertex (a merge source or target).
C6_SharedPoints ==
    /\ \A b \in 1..Len(branches) : \A pt \in EndPoints(b) :
          /\ pt.y \in Rows
          /\ pt.x >= 0
          /\ pt.x < vertices[pt.y + 1].next_x
          /\ pt.x < Len(vertices[pt.y + 1].connections)
          /\ \/ vertices[pt.y + 1].connections[pt.x + 1].on_branch = b - 1
             \/ IsOwnPoint(pt)
    /\ \A b1, b2 \in 1..Len(branches) :
          b1 /= b2 => \A pt \in SharedPoints(b1, b2) : IsOwnPoint(pt)

\* two branches meet at a vertex's point, and a line of one of them passes a
\* row in a lane that is not that row's vertex's
C6_Witness ==
    /\ pc = "loaded"
    /\ \E b1, b2 \in 1..Len(branches) :
          /\ b1 /= b2
          /\ SharedPoints(b1, b2) /= {}
          /\ \E pt \in EndPoints(b1) : ~IsOwnPoint(pt)

\* what the claims compare of a loaded builder: lanes, branch membership,
\* merge flags, branches with their colours, ends and lines, the palette
Layout(g) ==
    [lanes |-> [r \in 1..Len(g.vertices) |-> g.vertices[r].x],
     on_branch |-> [r \in 1..Len(g.vertices) |-> g.vertices[r].on_branch],
     merges |-> [r \in 1..Len(g.vertices) |-> is_merge(g.vertices[r])],
     branches |-> [b \in 1..Len(g.branches) |->
                      [colour |-> g.branches[b].colour,
                       end |-> g.branches[b].end,
                       lines |-> g.branches[b].lines]],
     available_colours |-> g.available_colours]

\* C8: the builder state and every per-row query after load(A); load(B)
\* equal those after load(B) alone on a fresh builder; and load with N = 0
\* after an earlier load leaves no vertices, branches or colour slots.
C8_ReloadResets ==
    pc = "loaded" =>
        /\ Builder = load_commits(GraphBuilderNew, args)
        /\ \A row \in 0..MaxQueryRow :
              RowData(Builder, row)
                  = RowData(load_commits(GraphBuilderNew, args), row)
        /\ args.commit_count = 0 => Builder = GraphBuilderNew

\* a second load on the same builder has returned, with branches to show
C8_Witness ==
    /\ pc = "loaded"
    /\ loads = 2
    /\ Len(branches) >= 2

\* args with every parent entry that is not below commit_count replaced by
\* the entries of sub
RECURSIVE ReplaceBeyond(_, _, _)
ReplaceBeyond(parents, commit_count, sub) ==
    IF parents = <<>> THEN <<>>
    ELSE (IF Head(parents) >= commit_count THEN sub ELSE <<Head(parents)>>)
         \o ReplaceBeyond(Tail(parents), commit_count, sub)

WithBeyond(a, sub) ==
    [a EXCEPT !.parent_map =
        [e \in 1..Len(a.parent_map) |->
            <<a.parent_map[e][1],
              ReplaceBeyond(a.parent_map[e][2], a.commit_count, sub)>>]]

\* C9: load of an input with a parent reference to a row >= N
\* gives the same lanes, branches, lines, colours and merge flags as load of
\* the input with that reference replaced by NULL.
C9_BeyondAsNull ==
    pc = "loaded" =>
        Layout(Builder)
            = Layout(load_commits(GraphBuilderNew,
                                  WithBeyond(args, <<NULL_VERTEX_ID>>)))

\* C11: load never aborts on an index miss: with N > 0, a parent_map entry
\* whose own row index is >= N is skipped or defaulted, and load goes on to
\* complete; no load ends in a panic.
C11_NoAbort == pc /= "panicked"

\* a normal-extension walk has ended on the point of a vertex that another
\* branch holds: branch b (1-based) ends at row v.id with its last line there
EndsOnForeignVertex(b, v) ==
    /\ branches[b].lines /= <<>>
    /\ branches[b].end = v.id
    /\ branches[b].lines[Len(branches[b].lines)].p2 = Point(v.x, v.id)
    /\ v.on_branch /= None
    /\ v.on_branch /= Some(b - 1)

\* C12: during load a vertex's branch membership is set at most once: once
\* on_branch holds a branch, no later step (no later add_to_branch) changes
\* on_branch or the vertex's lane.
C12_ClaimedOnce ==
    [][pc = "loading" =>
          /\ Len(vertices') = Len(vertices)
          /\ \A r \in 1..Len(vertices) :
                vertices[r].on_branch /= None =>
                    /\ vertices'[r].on_branch = vertices[r].on_branch
                    /\ vertices'[r].x = vertices[r].x
    ]_vars

\* a walk of a later branch has reached a vertex that was already claimed
C12_Witness ==
    /\ pc = "loaded"
    /\ \E b \in 1..Len(branches) : \E r \in 1..Len(vertices) :
          /\ EndsOnForeignVertex(b, vertices[r])
          /\ Unwrap(vertices[r].on_branch) < b - 1

\* the parents load_commits records for row r: the entries of its
\* parent_map list that are NULL or a row of the window, in input order
RecordedParents(r) ==
    SelectSeq(args.parent_map[r + 1][2],
              LAMBDA q : q = NULL_VERTEX_ID
                         \/ (q >= 0 /\ q < args.commit_count))

\* C13: throughout load, for every vertex, the recorded parents are the
\* input's in input order, the parent cursor never exceeds their number,
\* never decreases, and moves by exactly one when a parent is consumed.
C13_ParentCursor ==
    /\ [](pc \in {"loading", "loaded"} =>
             \A r \in 1..Len(vertices) :
                 /\ vertices[r].parents = RecordedParents(r - 1)
                 /\ vertices[r].next_parent \in 0..Len(vertices[r].parents))
    /\ [][pc = "loading" =>
             \A r \in 1..Len(vertices) :
                 /\ vertices'[r].parents = vertices[r].parents
                 /\ vertices'[r].next_parent - vertices[r].next_parent
                        \in {0, 1}
       ]_vars

\* a vertex with two different parents has had both consumed
C13_Witness ==
    /\ pc = "loaded"
    /\ \E r \in 1..Len(vertices) :
          /\ Len(vertices[r].parents) >= 2
          /\ vertices[r].parents[1] /= vertices[r].parents[2]
          /\ vertices[r].next_parent = Len(vertices[r].parents)

IsPrefix(s, t) == Len(s) <= Len(t) /\ SubSeq(t, 1, Len(s)) = s

\* C14: a reservation at lane L of a vertex is accepted only when L is the
\* vertex's next_x, which becomes L + 1, and a request for another lane
\* leaves the vertex as it was; so the reservation table always has next_x
\* entries, and during load it only grows at its end.
C14_Reservations ==
    /\ [](\A r \in 1..Len(vertices) :
             LET v == vertices[r]
             IN /\ Len(v.connections) = v.next_x
                /\ \A L \in 0..(v.next_x + 1) :
                   \A c \in {NULL_VERTEX_ID, v.id} : \A b \in 0..1 :
                      LET w == register_unavailable_point(v, L, c, b)
                      IN IF L = v.next_x
                         THEN /\ w.next_x = L + 1
                              /\ w.connections =
                                     Append(v.connections,
                                            UnavailablePoint(c, b))
                              /\ [w EXCEPT !.next_x = v.next_x,
                                           !.connections = v.connections] = v
                         ELSE w = v)
    /\ [][pc = "loading" =>
             \A r \in 1..Len(vertices) :
                 /\ IsPrefix(vertices[r].connections,
                             vertices'[r].connections)
                 /\ vertices'[r].next_x >= vertices[r].next_x
       ]_vars

\* a vertex holds two reservations, and a walk that ended on its point asked
\* for its lane again and was refused
C14_Witness ==
    /\ pc = "loaded"
    /\ \E b \in 1..Len(branches) : \E r \in 1..Len(vertices) :
          /\ EndsOnForeignVertex(b, vertices[r])
          /\ vertices[r].next_x >= 2
          /\ vertices[r].connections[vertices[r].x + 1].on_branch
                 = Unwrap(vertices[r].on_branch)

\* some non-NULL parent entry of a names the row of its own list or an
\* earlier row
HasBackReference(a) ==
    \E e \in 1..Len(a.parent_map) : \E k \in 1..Len(a.parent_map[e][2]) :
        /\ a.parent_map[e][2][k] >= 0
        /\ a.parent_map[e][2][k] <= a.parent_map[e][1]

\* C15: when a non-NULL parent reference points to the vertex's own row or
\* to an earlier row (still below N), load still terminates.
C15_BackReferenceTerminates ==
    (pc = "loading" /\ HasBackReference(args))
        ~> (pc = "loaded")

\* the main loop is about to call determine_path for row i
AboutToDetermine ==
    /\ pc = "loading"
    /\ i < Len(vertices)
    /\ \/ vertices[i + 1].next_parent < Len(vertices[i + 1].parents)
       \/ vertices[i + 1].on_branch = None

\* the vertex at row i is on a branch, has more than one parent, and its
\* next unconsumed parent is a non-NULL vertex that is on a branch
OnBranchMergeWithClaimedParent ==
    LET v == vertices[i + 1]
    IN /\ v.on_branch /= None
       /\ Len(v.parents) > 1
       /\ v.next_parent < Len(v.parents)
       /\ v.parents[v.next_parent + 1] /= NULL_VERTEX_ID
       /\ vertices[v.parents[v.next_parent + 1] + 1].on_branch /= None

\* the next parent of the vertex at row i is on another branch than it
ParentOnOtherBranch ==
    LET v == vertices[i + 1]
    IN vertices[v.parents[v.next_parent + 1] + 1].on_branch /= v.on_branch

\* the step drew on to the branch of the next parent of row i, made no branch
StitchedOntoParentBranch ==
    LET v == vertices[i + 1]
        b == Unwrap(vertices[v.parents[v.next_parent + 1] + 1].on_branch)
    IN /\ Len(branches') = Len(branches)
       /\ Len(branches'[b + 1].lines) > Len(branches[b + 1].lines)
       /\ available_colours' = available_colours

\* the step made one new branch
CreatedBranch == Len(branches') = Len(branches) + 1

\* C16 as claimed: determine_path(row) takes the merge-stitch case exactly
\* when the vertex at row is on a branch, has more than one parent, its next
\* unconsumed parent is a non-NULL vertex on a branch, and that parent's
\* branch differs from the vertex's own; in every other case it takes the
\* normal-extension case and creates a new branch.
C16_Dispatch_AsClaimed ==
    [][AboutToDetermine =>
          IF OnBranchMergeWithClaimedParent /\ ParentOnOtherBranch
          THEN StitchedOntoParentBranch
          ELSE CreatedBranch
    ]_vars

\* C16 as amended: determine_path(row) takes the merge-stitch case exactly
\* when the vertex at row is on a branch, has more than one parent, and its
\* next unconsumed parent is a non-NULL vertex on a branch, whether or not
\* that branch is the vertex's own; in every other case it takes the
\* normal-extension case and creates a new branch.
C16_Dispatch ==
    [][AboutToDetermine =>
          IF OnBranchMergeWithClaimedParent
          THEN StitchedOntoParentBranch
          ELSE CreatedBranch
    ]_vars

\* a merge-stitch has just run for a vertex whose parent is on its own branch
C16_Witness ==
    /\ lastCall.op = "merge"
    /\ path_log /= <<>>
    /\ path_log[Len(path_log)].kind = "merge"
    /\ Some(path_log[Len(path_log)].branch)
           = vertices[path_log[Len(path_log)].row + 1].on_branch

Max(S) == CHOOSE x \in S : \A y \in S : y <= x

\* the main loop is about to call determine_path for row i and the call
\* will take the normal-extension case
NormalStep == AboutToDetermine /\ ~OnBranchMergeWithClaimedParent

\* the branch a normal-extension step creates, as the step leaves it
NewBranch == branches'[Len(branches) + 1]

\* the rows the walk of a normal-extension step from row i draws a line to
WalkedRows == (i + 1)..(i + Len(NewBranch.lines))

\* the step claimed the vertex at row q for the branch it created
ClaimedInStep(q) ==
    /\ vertices[q + 1].on_branch = None
    /\ vertices'[q + 1].on_branch = Some(Len(branches))

\* the row of the vertex whose parent the walk tracks when it comes to row r:
\* the start row, or the last row above r that the walk claimed
Origin(r) == Max({i} \cup {q \in (i + 1)..(r - 1) : ClaimedInStep(q)})

HasNextParent(v) == v.next_parent < Len(v.parents)

NextParentOf(v) == v.parents[v.next_parent + 1]

\* C17: in the normal-extension walk, when the destination row r is the
\* tracked parent's row: if that parent is already on a branch, the line
\* ends at the parent's current point, the parent's branch and lane stay as
\* they are, the origin's cursor advances by one, and the walk stops there
\* with the branch's end and the colour slot both set to r; if the parent is
\* not on a branch, it is claimed for the walking branch in its next free
\* lane, the origin's cursor advances by one, and the walk goes on to the
\* next row only if the parent has an unconsumed parent of its own,
\* stopping at r with end and colour slot r otherwise.
C17_ReachParent ==
    [][NormalStep =>
          \A r \in WalkedRows :
             LET o == vertices[Origin(r) + 1]
                 p == vertices[r + 1]
                 line == NewBranch.lines[r - i]
                 last == i + Len(NewBranch.lines)
             IN /\ HasNextParent(o)
                /\ NextParentOf(o) = r =>
                     /\ vertices'[o.id + 1].next_parent = o.next_parent + 1
                     /\ IF p.on_branch /= None
                        THEN /\ line.p2 = Point(p.x, r)
                             /\ vertices'[r + 1].on_branch = p.on_branch
                             /\ vertices'[r + 1].x = p.x
                             /\ r = last
                             /\ NewBranch.end = r
                             /\ available_colours'[NewBranch.colour + 1] = r
                        ELSE /\ line.p2 = Point(p.next_x, r)
                             /\ vertices'[r + 1].on_branch
                                    = Some(Len(branches))
                             /\ vertices'[r + 1].x = p.next_x
                             /\ (r < last) <=>
                                    (HasNextParent(p) /\ r + 1 < Len(vertices))
                             /\ ~HasNextParent(p) =>
                                    /\ NewBranch.end = r
                                    /\ available_colours'[NewBranch.colour + 1]
                                           = r
    ]_vars

\* a normal-extension walk has just claimed a vertex below its start row and
\* then ended on a vertex of another branch
C17_Witness ==
    /\ lastCall.op = "normal"
    /\ \E r, q \in 1..Len(vertices) :
          /\ EndsOnForeignVertex(Len(branches), vertices[r])
          /\ vertices[q].on_branch = Some(Len(branches) - 1)
          /\ vertices[q].id > lastCall.row

\* the slots (1-based) of palette pal whose recorded end is below start_row
Qualifying(pal, start_row) == {k \in 1..Len(pal) : pal[k] < start_row}

\* C18: colour allocation for a branch starting at start_row returns the
\* lowest-indexed palette slot whose recorded end row is strictly less than
\* start_row and leaves the palette as it is; if no slot qualifies it appends
\* one new slot and returns its index.  The branch a normal-extension step
\* creates at row i gets its colour in this way.
C18_ColourAllocation ==
    /\ [](\A start_row \in 0..MaxQueryRow :
             LET got == get_available_colour(Builder, start_row)
                 q == Qualifying(available_colours, start_row)
             IN /\ got.g.vertices = vertices
                /\ got.g.branches = branches
                /\ IF q /= {}
                   THEN /\ got.colour + 1 \in q
                        /\ \A k \in q : got.colour + 1 <= k
                        /\ got.g.available_colours = available_colours
                   ELSE /\ got.colour = Len(available_colours)
                        /\ Len(got.g.available_colours)
                               = Len(available_colours) + 1
                        /\ IsPrefix(available_colours,
                                    got.g.available_colours))
    /\ [][NormalStep =>
             LET q == Qualifying(available_colours, i)
             IN IF q /= {}
                THEN /\ NewBranch.colour + 1 \in q
                     /\ \A k \in q : NewBranch.colour + 1 <= k
                     /\ Len(available_colours') = Len(available_colours)
                ELSE /\ NewBranch.colour = Len(available_colours)
                     /\ Len(available_colours') = Len(available_colours) + 1
       ]_vars

\* a branch has taken over a colour other than 0 while a branch of a
\* lower colour was still running; and some branch needed a new slot
C18_Witness ==
    /\ pc = "loaded"
    /\ \E b0, b1, b2 \in 1..Len(branches) :
          /\ b1 < b2
          /\ branches[b1].colour = branches[b2].colour
          /\ branches[b0].colour < branches[b2].colour
          /\ branches[b0].end >= CreatedAt[b2]
          /\ CreatedAt[b0] < CreatedAt[b2]

\* the step consumed a NULL parent of the vertex at row r
NullConsumed(r) ==
    /\ vertices'[r + 1].next_parent > vertices[r + 1].next_parent
    /\ NextParentOf(vertices[r + 1]) = NULL_VERTEX_ID

\* C19: when a normal-extension walk runs past the last row while the
\* current vertex's next parent is NULL, that parent is marked consumed once
\* (the cursor moves by one), the branch's lines go down to row N-1 and no
\* further, and the branch's end is N; and a NULL parent is consumed in no
\* other way: not by a walk that stopped before the last row, and not by
\* the merge-stitch case.
C19_NullAtBottom ==
    [][pc = "loading" =>
          /\ \A r \in Rows :
                NullConsumed(r) =>
                    /\ NormalStep
                    /\ r = Origin(Len(vertices))
                    /\ vertices'[r + 1].next_parent
                           = vertices[r + 1].next_parent + 1
                    /\ NewBranch.end = Len(vertices)
                    /\ Len(NewBranch.lines) = Len(vertices) - 1 - i
                    /\ \A k \in 1..Len(NewBranch.lines) :
                          /\ NewBranch.lines[k].p1.y = i + k - 1
                          /\ NewBranch.lines[k].p2.y = i + k
          /\ (NormalStep /\ NewBranch.end = Len(vertices)) =>
                LET cur == vertices[Origin(Len(vertices)) + 1]
                IN (HasNextParent(cur) /\ NextParentOf(cur) = NULL_VERTEX_ID)
                      => NullConsumed(cur.id)
    ]_vars

\* a walk has just claimed a vertex below its start row and run on from it
\* past the last row, consuming that vertex's NULL parent
C19_Witness ==
    /\ lastCall.op = "normal"
    /\ branches[Len(branches)].end = Len(vertices)
    /\ Len(branches[Len(branches)].lines) >= 2
    /\ \E r \in 1..Len(vertices) :
          /\ vertices[r].on_branch = Some(Len(branches) - 1)
          /\ r - 1 > lastCall.row
          /\ vertices[r].next_parent >= 1
          /\ vertices[r].parents[vertices[r].next_parent] = NULL_VERTEX_ID

\* the main loop is about to call determine_path for row i and the call
\* will take the merge-stitch case
MergeStep == AboutToDetermine /\ OnBranchMergeWithClaimedParent

\* C20: every line's anchoring flag follows the rule: a line of the
\* normal-extension case has locked_first = (lane of its start point < lane
\* of its end point); a line of the merge-stitch case has locked_first = true
\* exactly when the reservation for (parent, parent's branch) was not found
\* at the line's destination row, that row is not the parent's own row, and
\* the lane increases, and false otherwise.
C20_LockedFirst ==
    [][/\ NormalStep =>
             \A k \in 1..Len(NewBranch.lines) :
                 NewBranch.lines[k].locked_first
                     = (NewBranch.lines[k].p1.x < NewBranch.lines[k].p2.x)
       /\ MergeStep =>
             LET p == NextParentOf(vertices[i + 1])
                 b == Unwrap(vertices[p + 1].on_branch)
                 old == branches[b + 1].lines
                 new == branches'[b + 1].lines
             IN \A k \in (Len(old) + 1)..Len(new) :
                   new[k].locked_first
                       = (/\ ~HasReservation(vertices[new[k].p2.y + 1], p, b)
                          /\ new[k].p2.y /= p
                          /\ new[k].p1.x < new[k].p2.x)
    ]_vars

\* a merge-stitch has just found its reservation on the row below the merge
\* vertex, in a lane to the right of it: the line goes right, not anchored
C20_Witness ==
    /\ lastCall.op = "merge"
    /\ path_log /= <<>>
    /\ path_log[Len(path_log)].kind = "merge"
    /\ LET ls == branches[path_log[Len(path_log)].branch + 1].lines
       IN /\ ls /= <<>>
          /\ ls[Len(ls)].p1.x < ls[Len(ls)].p2.x
          /\ ~ls[Len(ls)].locked_first
          /\ ls[Len(ls)].p1.y = lastCall.row

\* C21: when has_uncommitted is true, the input handed to load_commits has
\* a synthetic row 0 with no parents, marked uncommitted; every real row
\* index, every non-NULL parent reference and the HEAD row is increased by
\* exactly 1, NULL parent entries stay NULL and each parent list keeps its
\* order; when it is false nothing is shifted and no row is marked.
C21_UncommittedShift ==
    pc \in {"loading", "loaded"} =>
        LET off == IF walk.has_uncommitted THEN 1 ELSE 0
        IN /\ args.commit_count = walk.count + off
           /\ args.has_uncommitted = walk.has_uncommitted
           /\ Len(args.parent_map) = Len(walk.parent_map) + off
           /\ walk.has_uncommitted => args.parent_map[1] = <<0, <<>>>>
           /\ \A e \in 1..Len(walk.parent_map) :
                 /\ args.parent_map[e + off][1] = walk.parent_map[e][1] + off
                 /\ Len(args.parent_map[e + off][2])
                        = Len(walk.parent_map[e][2])
                 /\ \A k \in 1..Len(walk.parent_map[e][2]) :
                       args.parent_map[e + off][2][k]
                           = IF walk.parent_map[e][2][k] = NULL_VERTEX_ID
                             THEN NULL_VERTEX_ID
                             ELSE walk.parent_map[e][2][k] + off
           /\ args.head_index
                  = IF walk.head_index = None THEN None
                    ELSE Some(Unwrap(walk.head_index) + off)
           /\ Len(vertices) = walk.count + off
           /\ \A r \in 1..Len(vertices) :
                 /\ vertices[r].is_committed
                        = ~(walk.has_uncommitted /\ r = 1)
                 /\ vertices[r].is_current
                        = (walk.head_index = Some(r - 1 - off))
                 /\ vertices[r].parents = args.parent_map[r][2]

\* a walk with uncommitted changes, a HEAD row, a NULL parent and a parent
\* inside the window has been loaded
C21_Witness ==
    /\ pc = "loaded"
    /\ walk.has_uncommitted
    /\ walk.head_index /= None
    /\ \E e \in 1..Len(walk.parent_map) :
          \E k1, k2 \in 1..Len(walk.parent_map[e][2]) :
              /\ walk.parent_map[e][2][k1] = NULL_VERTEX_ID
              /\ walk.parent_map[e][2][k2] /= NULL_VERTEX_ID

\* the largest number of lanes reserved at any single row
MaxLanes == Max({0} \cup {vertices[r].next_x : r \in 1..Len(vertices)})

\* C22: after load, the number of palette slots allocated is at most the
\* largest number of lanes reserved at any single row.
C22_ColoursBoundedByLanes ==
    pc = "loaded" => Len(available_colours) <= MaxLanes

\* where a piece begins and ends, and whether it is a curve
PieceStart(piece) == <<piece[2], piece[3]>>
PieceEnd(piece) == <<piece[Len(piece) - 1], piece[Len(piece)]>>
IsCurve(piece) == piece[4] = "C"

\* the lines of all branches
AllLines ==
    UNION {{branches[b].lines[k] : k \in 1..Len(branches[b].lines)} :
           b \in 1..Len(branches)}

\* C23: for a cross-lane line, geometry is emitted only at the line's start
\* row and at its end row, one piece at each: with locked_first the start
\* row gets the curve from the start lane to the end lane and the end row a
\* straight stroke in the end lane; without it the start row gets a straight
\* stroke in the start lane and the end row the curve.  The start-row piece
\* ends at the row's bottom edge in the lane where the end-row piece begins
\* at the row's top edge.
C23_CrossLanePieces ==
    \A line \in AllLines : \A row \in 0..MaxQueryRow :
        line.p1.x /= line.p2.x =>
            LET ps == LinePieces(line, row)
                xa == line.p1.x * COL_SPACING + X_OFFSET
                xb == line.p2.x * COL_SPACING + X_OFFSET
                xmid == IF line.locked_first THEN xb ELSE xa
            IN /\ line.p2.y = line.p1.y + 1
               /\ IF row = line.p1.y
                  THEN /\ Len(ps) = 1
                       /\ PieceStart(ps[1]) = <<xa, ROW_HEIGHT \div 2>>
                       /\ PieceEnd(ps[1]) = <<xmid, ROW_HEIGHT>>
                       /\ IsCurve(ps[1]) = line.locked_first
                  ELSE IF row = line.p2.y
                  THEN /\ Len(ps) = 1
                       /\ PieceStart(ps[1]) = <<xmid, 0>>
                       /\ PieceEnd(ps[1]) = <<xb, ROW_HEIGHT \div 2>>
                       /\ IsCurve(ps[1]) = ~line.locked_first
                  ELSE ps = <<>>

\* the geometry of the end row of an anchored cross-lane line has just been
\* queried, and the branches also hold a cross-lane line that is not anchored
C23_Witness ==
    /\ pc = "loaded"
    /\ lastCall.op = "query"
    /\ \E l1, l2 \in AllLines :
          /\ l1.p1.x /= l1.p2.x
          /\ l1.locked_first
          /\ l1.p2.y = lastCall.row
          /\ l2.p1.x /= l2.p2.x
          /\ ~l2.locked_first

\* the number of pieces the lines of branch b (1-based) from line k on add
\* for a row
RECURSIVE PieceCount(_, _, _)
PieceCount(b, k, row) ==
    IF k > Len(branches[b].lines) THEN 0
    ELSE Len(LinePieces(branches[b].lines[k], row)) + PieceCount(b, k + 1, row)

\* the number of pieces the branches from b on with colour index congruent
\* to c add for a row
RECURSIVE CongruentPieceCount(_, _, _)
CongruentPieceCount(b, c, row) ==
    IF b > Len(branches) THEN 0
    ELSE (IF branches[b].colour % 8 = c THEN PieceCount(b, 1, row) ELSE 0)
         + CongruentPieceCount(b + 1, c, row)

IsIn(x, seq) == \E k \in 1..Len(seq) : seq[k] = x

\* C24: geometry for a row always has exactly 8 path buckets; every segment
\* of a branch with colour index c is written to bucket c mod 8 and to no
\* other bucket, so that branches with congruent colour indices share a
\* bucket; and the per-row colour query returns the unreduced colour index
\* of the vertex's branch.
C24_Buckets ==
    \A row \in 0..MaxQueryRow :
        LET svg == generate_svg_paths(Builder, row)
        IN /\ Len(svg.paths) = 8
           /\ \A c \in 0..7 :
                 Len(svg.paths[c + 1]) = CongruentPieceCount(1, c, row)
           /\ \A b \in 1..Len(branches) :
                 \A k \in 1..Len(branches[b].lines) :
                    \A m \in 1..Len(LinePieces(branches[b].lines[k], row)) :
                       IsIn(LinePieces(branches[b].lines[k], row)[m],
                            svg.paths[(branches[b].colour % 8) + 1])
           /\ (row < Len(vertices) /\ vertices[row + 1].on_branch /= None) =>
                 get_vertex_colour(Builder, row)
                     = branches[Unwrap(vertices[row + 1].on_branch) + 1].colour

\* a row has just been queried that is crossed by two branches whose colour
\* indices differ and are congruent mod 8, and whose own colour is above 7
C24_Witness ==
    /\ pc = "loaded"
    /\ lastCall.op = "query"
    /\ result /= None
    /\ Unwrap(result).colour > 7
    /\ \E b1, b2 \in 1..Len(branches) :
          /\ branches[b1].colour /= branches[b2].colour
          /\ branches[b1].colour % 8 = branches[b2].colour % 8
          /\ PieceCount(b1, 1, lastCall.row) > 0
          /\ PieceCount(b2, 1, lastCall.row) > 0
          /\ Len(Unwrap(result).paths[(branches[b1].colour % 8) + 1]) >= 2

\* C25: for every row below N, geometry generation returns exactly one
\* non-empty node-marker path, a circle of radius 4 centred on the vertex's
\* lane column at the middle of the row, whatever the bucket paths hold; it
\* is produced even when no line touches the row.
C25_NodeMarker ==
    \A row \in Rows :
        LET node == generate_svg_paths(Builder, row).node_path
        IN /\ Len(node) = 1
           /\ node[1] = <<"M", vertices[row + 1].x * 16 + 7, 14,
                          "m", -4, 0,
                          "a", 4, 4, 0, 1, 0, 8, 0,
                          "a", 4, 4, 0, 1, 0, -8, 0>>

\* a row that no line touches has just been queried: its buckets are empty
\* and its node marker is not
C25_Witness ==
    /\ pc = "loaded"
    /\ lastCall.op = "query"
    /\ lastCall.row < Len(vertices)
    /\ Unwrap(result).node_path /= <<>>
    /\ \A c \in 1..8 : Unwrap(result).paths[c] = <<>>

\* lines k0+1..Len(ls) of ls form a chain from point p down adjacent rows
IsChainFrom(ls, k0, p) ==
    \A k \in (k0 + 1)..Len(ls) :
        /\ ls[k].p1 = IF k = k0 + 1 THEN p ELSE ls[k - 1].p2
        /\ ls[k].p2.y = ls[k].p1.y + 1

\* C26: every line created during load joins two adjacent rows (row of p2 =
\* row of p1 + 1), and within one walk the first line starts at the point of
\* the walk's vertex and each later line starts where the previous one
\* ended; so no line passes through a row without an end point on it, and
\* geometry touches a line only at its two rows.
C26_AdjacentRows ==
    /\ [](\A line \in AllLines :
             /\ line.p2.y = line.p1.y + 1
             /\ \A row \in 0..MaxQueryRow :
                   (row /= line.p1.y /\ row /= line.p2.y) =>
                       LinePieces(line, row) = <<>>)
    /\ [][/\ NormalStep =>
                 IsChainFrom(NewBranch.lines, 0, Point(vertices'[i + 1].x, i))
          /\ MergeStep =>
                 LET b == Unwrap(vertices[NextParentOf(vertices[i + 1]) + 1]
                                     .on_branch)
                 IN IsChainFrom(branches'[b + 1].lines,
                                Len(branches[b + 1].lines),
                                Point(vertices[i + 1].x, i))
       ]_vars

\* a branch holds the lines of a walk over three rows and more, and a
\* merge-stitch has added lines of its own
C26_Witness ==
    /\ pc = "loaded"
    /\ \E k \in 1..Len(path_log) : path_log[k].kind = "merge"
    /\ \E b \in 1..Len(branches) :
          /\ Len(branches[b].lines) >= 3
          /\ branches[b].lines[3].p1 = branches[b].lines[2].p2

\* C27: in every reachable state each vertex that is on a branch holds, at
\* its own lane, a reservation naming itself and its own branch; the
\* reservation lookup for (its id, its branch) on it returns its current
\* point; and its lane is less than its next free lane.
C27_OwnReservation ==
    \A k \in 1..Len(vertices) :
        LET v == vertices[k]
        IN v.on_branch /= None =>
               /\ v.x < Len(v.connections)
               /\ v.connections[v.x + 1].connects_to = v.id
               /\ v.connections[v.x + 1].on_branch = Unwrap(v.on_branch)
               /\ get_point_connecting_to(v, v.id, Unwrap(v.on_branch)) =
                      Some(Point(v.x, v.id))
               /\ v.x < v.next_x

\* load has put a vertex on a branch in a lane other than 0, behind a
\* reservation that another branch made on its row
C27_Witness ==
    /\ pc = "loaded"
    /\ \E k \in 1..Len(vertices) :
          /\ vertices[k].on_branch /= None
          /\ vertices[k].x >= 1
          /\ vertices[k].connections[1].connects_to /= vertices[k].id

\* the rows on which a line of the branch at index b has an end point
TouchedRows(b) ==
    UNION {{branches[b].lines[k].p1.y, branches[b].lines[k].p2.y} :
              k \in 1..Len(branches[b].lines)}

\* C28: for input whose non-NULL parents are later rows, every line stored
\* on a branch, the lines a later merge-stitch appended included, lies
\* between the row at which the branch was created and the branch's recorded
\* end row; hence lines of two different branches that have the same colour
\* index never touch the same row.
C28_LinesWithinLifetime ==
    Len(CreatedAt) = Len(branches) =>
        /\ \A b \in 1..Len(branches) :
              \A r \in TouchedRows(b) :
                  /\ CreatedAt[b] <= r
                  /\ r <= branches[b].end
        /\ \A b1, b2 \in 1..Len(branches) :
              (b1 /= b2 /\ branches[b1].colour = branches[b2].colour) =>
                  TouchedRows(b1) \cap TouchedRows(b2) = {}

\* two branches with lines share a colour index, and one of them has taken
\* the lines of a merge-stitch after the walk that created it
C28_Witness ==
    /\ pc = "loaded"
    /\ Len(CreatedAt) = Len(branches)
    /\ \E k \in 1..Len(path_log) : path_log[k].kind = "merge"
    /\ \E b1, b2 \in 1..Len(branches) :
          /\ b1 /= b2
          /\ branches[b1].colour = branches[b2].colour
          /\ branches[b1].lines /= <<>>
          /\ \E k \in 2..Len(branches[b2].lines) :
                branches[b2].lines[k].p1 /= branches[b2].lines[k - 1].p2

\* the lines of all branches of the builder g, each moved down by off rows
ShiftedLines(g, off) ==
    UNION {{[p1 |-> Point(g.branches[b].lines[k].p1.x,
                          g.branches[b].lines[k].p1.y + off),
             p2 |-> Point(g.branches[b].lines[k].p2.x,
                          g.branches[b].lines[k].p2.y + off)] :
               k \in 1..Len(g.branches[b].lines)} :
           b \in 1..Len(g.branches)}

\* the builder get_commits_with_graph would have filled for the walk of the
\* current state had there been no uncommitted changes
PlainLoad ==
    load_commits(GraphBuilderNew,
                 AdjustedArgs(walk.count, walk.parent_map, walk.head_index,
                              FALSE))

\* C29: the synthetic uncommitted row does not change the layout of the
\* real commits: the lane and the merge flag of real commit k, and the lanes
\* of every line between real rows, are the same with has_uncommitted (at
\* row k + 1) as without it (at row k); and the synthetic row is alone in
\* lane 0, on a branch of its own, with no line leaving it.
C29_SyntheticRowNeutral ==
    (pc = "loaded" /\ walk.has_uncommitted) =>
        /\ Len(vertices) = Len(PlainLoad.vertices) + 1
        /\ \A k \in 1..Len(PlainLoad.vertices) :
              /\ vertices[k + 1].x = PlainLoad.vertices[k].x
              /\ is_merge(vertices[k + 1]) = is_merge(PlainLoad.vertices[k])
        /\ ShiftedLines(Builder, 0) = ShiftedLines(PlainLoad, 1)
        /\ vertices[1].x = 0
        /\ vertices[1].next_x = 1
        /\ vertices[1].on_branch /= None
        /\ \A k \in 2..Len(vertices) :
              vertices[k].on_branch /= vertices[1].on_branch
        /\ branches[Unwrap(vertices[1].on_branch) + 1].lines = <<>>
        /\ \A line \in AllLines : line.p1.y /= 0

\* a walk with uncommitted changes has been loaded whose real commits
\* include a merge and a commit outside lane 0
C29_Witness ==
    /\ pc = "loaded"
    /\ walk.has_uncommitted
    /\ \E k \in 2..Len(vertices) : is_merge(vertices[k])
    /\ \E k \in 2..Len(vertices) : vertices[k].x >= 1

\* the entries of a list, and the place of an entry in it
Entries(repos) == {repos[k] : k \in 1..Len(repos)}

Place(repos, path) == Min({k \in 1..Len(repos) : repos[k] = path})

\* C30: starting from an empty stored list, after any sequence of add,
\* remove and reorder operations the list has no duplicate path and at most
\* 10 entries; add puts the path at index 0 and keeps the other entries in
\* their previous relative order; reorder keeps the same set of entries; and
\* remove with an index that is not below the length, or reorder with
\* from_idx not below the length, to_idx above the length or from_idx =
\* to_idx, leaves the stored list unchanged.
C30_RecentRepos ==
    /\ [](/\ Len(recent_repos) <= 10
          /\ \A k1, k2 \in 1..Len(recent_repos) :
                recent_repos[k1] = recent_repos[k2] => k1 = k2)
    /\ [][/\ lastCall'.op = "add" =>
                 /\ recent_repos'[1] = lastCall'.path
                 /\ \A k \in 2..Len(recent_repos') :
                       /\ recent_repos'[k] /= lastCall'.path
                       /\ recent_repos'[k] \in Entries(recent_repos)
                 /\ \A k1, k2 \in 2..Len(recent_repos') :
                       k1 < k2 =>
                           Place(recent_repos, recent_repos'[k1])
                               < Place(recent_repos, recent_repos'[k2])
          /\ lastCall'.op = "reorder" =>
                 /\ Entries(recent_repos') = Entries(recent_repos)
                 /\ Len(recent_repos') = Len(recent_repos)
                 /\ (\/ ~(lastCall'.from_idx < Len(recent_repos))
                     \/ lastCall'.to_idx > Len(recent_repos)
                     \/ lastCall'.from_idx = lastCall'.to_idx)
                        => recent_repos' = recent_repos
          /\ lastCall'.op = "remove" =>
                 (~(lastCall'.index < Len(recent_repos))
                      => recent_repos' = recent_repos)
       ]_vars

\* the list is full, its oldest entry has been dropped for a new one, a
\* reorder with indices in range has just run, and the list is no longer in
\* the order of opening
C30_Witness ==
    /\ Len(recent_repos) = 10
    /\ \A k \in 1..10 : recent_repos[k] /= 1
    /\ lastCall.op = "reorder"
    /\ lastCall.from_idx < 10
    /\ lastCall.to_idx <= 10
    /\ lastCall.from_idx /= lastCall.to_idx
    /\ recent_repos /= [k \in 1..10 |-> 12 - k]
====
